---- MODULE Spec2Model ----
\* Cache-aside aggregation pipelines of the disaster-response backend:
\* the cache adapter (config/database.js), retryWithBackoff (utils/helpers.js),
\* the geocoding, social-media, official-updates and Gemini services, and the
\* social-media / official-updates route handlers that persist their results.
EXTENDS Integers, Sequences, FiniteSets, TLC

\* ------------------------------------------------------------------ bounds
\* The clock counts ticks; one hour is TicksPerHour ticks.
TicksPerHour == 6
MaxTime == TicksPerHour + 1
\* Largest maxRetries / baseDelay handed to the stand-alone retryWithBackoff.
MaxRetriesArg == 4
MaxBaseDelay == 2
\* Longest content, in words, handed to the stand-alone _calculatePriorityScore.
MaxWords == 4

\* ------------------------------------------------------- program constants
\* retryWithBackoff default maxRetries (every service uses the default).
DefaultMaxRetries == 3
\* ttlHours arguments of setCachedData, in hundredths of an hour.
TtlGeocode == 2400
TtlSocial == 17
TtlOfficial == 100
TtlGemini == 100
\* OfficialUpdatesService.sources: FEMA, Red Cross, National Weather Service.
NumSources == 3

Reqs == {1, 2}
Args == {1}

Services == {"geocode", "reverseGeocode", "fetchReports", "fetchUpdates",
             "verifyImage", "extractLocation"}
Routes == {"socialRoute", "officialRoute"}

\* Cache key prefix built by each service from its arguments.
Prefix(svc) ==
  CASE svc = "geocode" -> "geocode_"
    [] svc = "reverseGeocode" -> "reverse_geocode_"
    [] svc = "fetchReports" -> "social_media_"
    [] svc = "fetchUpdates" -> "official_updates_"
    [] svc = "verifyImage" -> "gemini_verify_"
    [] OTHER -> "gemini_location_"

CacheKey(svc, a) == <<Prefix(svc), a>>
Keys == {CacheKey(s, a) : s \in Services, a \in Args}

\* ttlHours each service passes to setCachedData.
TtlOf(svc) ==
  CASE svc \in {"geocode", "reverseGeocode"} -> TtlGeocode
    [] svc = "fetchReports" -> TtlSocial
    [] svc = "fetchUpdates" -> TtlOfficial
    [] OTHER -> TtlGemini
Ttls == {TtlGeocode, TtlSocial, TtlOfficial}

\* ------------------------------------------------------------------ values
Null == [source |-> "null", by |-> 0, proc |-> FALSE, from |-> {}, n |-> 0]
NoEntry == [present |-> FALSE, value |-> Null, expires_at |-> 0]

\* A normalized result: its source tag, the call that built it, whether the
\* reports went through _processReports, the official sources it holds
\* updates of, and whether it holds any report / update at all.
Result(source, r, proc, from, n) ==
  [source |-> source, by |-> r, proc |-> proc, from |-> from, n |-> n]

VARIABLES
  supabase,       \* getSupabase() returns a client (store configured)
  storeFails,     \* store calls fail "never", "sometimes" or "always"
  geoService,     \* GeocodingService.service
  socialService,  \* SocialMediaService.service
  geminiKey,      \* GeminiService.apiKey is set
  underTest,      \* the service / handler / adapter the callers exercise
  observer,       \* what is recorded about the calls: "off", "sets" or "calls"
  now,            \* wall clock, in ticks
  cache,          \* the cache table: key -> entry
  socialTable,    \* social_media_reports rows: <<disaster, writer>>
  officialTable,  \* official_updates rows
  req,            \* the in-flight calls / requests
  lastSet,        \* observer: per key, the latest upsert setCachedData made
  firstAt,        \* observer: when the first of two calls in a row returned
  rt,             \* a stand-alone run of retryWithBackoff
  geoKeys,        \* which of GOOGLE_MAPS_API_KEY / MAPBOX_ACCESS_TOKEN are set
  disasters,      \* the disasters table: id -> row
  nextId,         \* the id the store gives the next inserted disaster
  hreq,           \* the in-flight requests of the disasters / resources / image routers
  sockets,        \* the Socket.IO clients: connected, rooms joined
  calc            \* a stand-alone evaluation of a pure helper

vars == <<supabase, storeFails, geoService, socialService, geminiKey, underTest,
          observer, now, cache, socialTable, officialTable, req, lastSet, firstAt, rt,
          geoKeys, disasters, nextId, hreq, sockets, calc>>

cfgVars == <<supabase, storeFails, geoService, socialService, geminiKey, underTest,
             observer, geoKeys>>

\* The state of the disasters API, of the sockets and of the helper evaluation.
sideVars == <<disasters, nextId, hreq, sockets, calc>>

\* An emitted event: its name, the action it reports, the disaster it concerns,
\* the sockets it was delivered to, those that were in the disaster's room and
\* those that were connected when it was emitted.
NoEmit == [event |-> "none", action |-> "none", d |-> 0, to |-> {},
           joined |-> {}, online |-> {}]

\* ------------------------------------------------------------ requests
ReqIdle == [entry |-> "none", svc |-> "none", pc |-> "idle", arg |-> 1,
            key |-> CacheKey("geocode", 1), valid |-> TRUE, ttl |-> 0,
            res |-> Null, hit |-> FALSE, i |-> 0, src |-> 0, got |-> {},
            bad |-> {}, called |-> FALSE, failed |-> FALSE, wrote |-> FALSE,
            out |-> "none", steps |-> <<>>,
            refresh |-> FALSE, kw |-> TRUE, status |-> 0, data |-> Null,
            persisted |-> FALSE, mainHit |-> FALSE, emit |-> NoEmit,
            lat |-> 0, lng |-> 0]

\* ------------------------------------------------ retryWithBackoff (helpers)
Errors == {"e1", "e2"}

RECURSIVE Pow2(_)
Pow2(n) == IF n = 0 THEN 1 ELSE 2 * Pow2(n - 1)

\* const delayTime = baseDelay * Math.pow(2, i)
DelayTime(baseDelay, i) == baseDelay * Pow2(i)

\* if (i === maxRetries - 1) throw error
IsLastAttemptOffByOne(i, maxRetries) == i = maxRetries
IsLastAttempt(i, maxRetries) == i = maxRetries - 1

\* for (let i = 0; i < maxRetries; i++)
LoopCond(i, maxRetries) == i < maxRetries

RtIdle == [pc |-> "idle", maxRetries |-> 0, baseDelay |-> 0, i |-> 0,
           calls |-> 0, waits |-> <<>>, errs |-> <<>>, lastError |-> "undefined",
           outcome |-> "none", thrown |-> "undefined"]

\* retryWithBackoff(fn, maxRetries, baseDelay) is called.
RtStart ==
  /\ rt.pc = "idle"
  /\ \E m \in 0..MaxRetriesArg, b \in 1..MaxBaseDelay :
       rt' = [RtIdle EXCEPT !.pc = "loop", !.maxRetries = m, !.baseDelay = b]
  /\ UNCHANGED <<cfgVars, sideVars, now, cache, socialTable, officialTable, req,
               lastSet, firstAt>>

\* The loop head: either enter the body or fall out to `throw lastError`.
RtLoop ==
  /\ rt.pc = "loop"
  /\ IF LoopCond(rt.i, rt.maxRetries)
       THEN rt' = [rt EXCEPT !.pc = "call"]
       ELSE rt' = [rt EXCEPT !.pc = "done", !.outcome = "threw",
                             !.thrown = rt.lastError]
  /\ UNCHANGED <<cfgVars, sideVars, now, cache, socialTable, officialTable, req,
               lastSet, firstAt>>

\* return await fn(): the operation succeeds.
RtCallOk ==
  /\ rt.pc = "call"
  /\ rt' = [rt EXCEPT !.pc = "done", !.calls = @ + 1, !.outcome = "returned"]
  /\ UNCHANGED <<cfgVars, sideVars, now, cache, socialTable, officialTable, req,
               lastSet, firstAt>>

\* fn() throws: remember the error, rethrow on the last attempt, else delay.
RtCallFail ==
  /\ rt.pc = "call"
  /\ \E e \in Errors :
       IF IsLastAttempt(rt.i, rt.maxRetries)
         THEN rt' = [rt EXCEPT !.pc = "done", !.calls = @ + 1,
                               !.errs = Append(@, e), !.lastError = e,
                               !.outcome = "threw", !.thrown = e]
         ELSE rt' = [rt EXCEPT !.pc = "delay", !.calls = @ + 1,
                               !.errs = Append(@, e), !.lastError = e,
                               !.waits = Append(@, DelayTime(rt.baseDelay, rt.i))]
  /\ UNCHANGED <<cfgVars, sideVars, now, cache, socialTable, officialTable, req,
               lastSet, firstAt>>

\* await delay(delayTime) resolves; i++.
RtDelay ==
  /\ rt.pc = "delay"
  /\ rt' = [rt EXCEPT !.pc = "loop", !.i = @ + 1]
  /\ UNCHANGED <<cfgVars, sideVars, now, cache, socialTable, officialTable, req,
               lastSet, firstAt>>

RtStep == RtLoop \/ RtCallOk \/ RtCallFail \/ RtDelay

\* ----------------------------------------------- cache adapter (database.js)
StoreOutcomes ==
  CASE storeFails = "never" -> {TRUE}
    [] storeFails = "always" -> {FALSE}
    [] OTHER -> {TRUE, FALSE}

\* expiresAt.setHours(expiresAt.getHours() + ttlHours): setHours keeps the
\* integer part of its argument (ttl is given in hundredths of an hour).
ExpiresAt(t, ttl) == t + (ttl \div 100) * TicksPerHour

\* if (new Date(data.expires_at) < new Date())
IsExpiredInverted(e, t) == t < e.expires_at
IsExpired(e, t) == e.expires_at < t

\* supabase.from('cache').upsert({key, value, expires_at}): key is the primary key.
InsertIfAbsent(c, k, v, exp) ==
  IF c[k].present THEN c
  ELSE [c EXCEPT ![k] = [present |-> TRUE, value |-> v, expires_at |-> exp]]
Upsert(c, k, v, exp) == [c EXCEPT ![k] = [present |-> TRUE, value |-> v, expires_at |-> exp]]

\* supabase.from('cache').delete().eq('key', key)
DeleteKey(c, k) == [c EXCEPT ![k] = NoEntry]

\* supabase.from('cache').delete().lt('expires_at', now)
DeleteExpired(c, t) ==
  [k \in Keys |-> IF c[k].present /\ c[k].expires_at < t THEN NoEntry ELSE c[k]]

\* ten minutes and one hour, the look-back windows of the route handlers
TenMinutes == TicksPerHour \div 6

\* ------------------------------------------------- route continuations
\* res.status(..).json(..): the handler is finished.
Respond(q, code) == [q EXCEPT !.pc = "done", !.svc = "none", !.status = code,
                              !.out = "returned"]

\* if (data.source !== 'database' && data.reports.length > 0) -> store
NeedsPersist(d) == d.source # "database" /\ d.n > 0

\* The handler got its data (from the service or from the table).
RouteWithData(q, d) ==
  IF NeedsPersist(d)
    THEN [q EXCEPT !.svc = "none", !.data = d, !.mainHit = q.hit, !.pc = "rt_persist"]
    ELSE Respond([q EXCEPT !.data = d, !.mainHit = q.hit], 200)

\* The awaited service call returned v to the route handler; the locals of the
\* call are gone.
RouteAfterService(q, v) ==
  LET q1 == [q EXCEPT !.key = ReqIdle.key, !.ttl = 0, !.i = 0, !.src = 0,
                      !.res = Null, !.got = {}, !.bad = {}]
  IN  IF q.svc = "geocode"
        THEN [q1 EXCEPT !.svc = "none", !.pc = "rt_upsert"]
        ELSE RouteWithData(q1, v)

\* The pipeline steps a request went through, in order. The geocoding of a
\* report's location inside the social-media handler is a pipeline of its own
\* and leaves the handler's trace alone.
Log(q, labels) ==
  IF q.entry \in Routes /\ q.svc = "geocode" THEN q.steps ELSE q.steps \o labels

\* ------------------------------------------------------ service plumbing
\* The service call returns v to its caller.
ServiceReturn(q, v) ==
  IF q.entry \in Services
    THEN [q EXCEPT !.pc = "done", !.res = v, !.out = "returned"]
    ELSE RouteAfterService([q EXCEPT !.res = v], v)

\* An error escapes the service call.
ServiceThrow(q) ==
  IF q.entry \in Services
    THEN [q EXCEPT !.pc = "done", !.res = Null, !.out = "threw"]
    ELSE Respond([q EXCEPT !.res = Null], 500)

\* _geocodeMock, _reverseGeocodeMock, _fetchMockReports, _fetchMockUpdates,
\* _verifyImageMock, _extractLocationMock: the synthetic result. The social and
\* official mocks keep only the items that match a keyword.
MockResult(q, r, proc) ==
  Result("mock", r, proc, {},
         IF q.svc \in {"fetchReports", "fetchUpdates"} /\ ~q.kw THEN 0 ELSE 1)

\* catch (error) { ...; return await this._xxxMock(...) }
FallbackRethrows(q, r) == ServiceThrow(q)
Fallback(q, r) ==
  ServiceReturn([q EXCEPT !.failed = TRUE], MockResult(q, r, FALSE))

\* The result is ready: await setCachedData(cacheKey, result, ttl).
ToCacheWrite(q, v, steps) ==
  [q EXCEPT !.pc = "set_upsert", !.res = v, !.ttl = TtlOf(q.svc),
            !.steps = Log(q, steps)]

\* What the service's try/catch does with an error raised inside the try: the
\* mock result is returned without being cached.
OnErrorCached(q, r) == ToCacheWrite(q, MockResult(q, r, FALSE), <<>>)
OnError(q, r) == Fallback(q, r)

\* _fetchMockUpdates returns an object {updates, ...}; a spread argument
\* (allUpdates.push(...mockUpdates)) needs an iterable.
MockUpdatesShape == "object"
IsIterable(shape) == shape = "array"

\* fetchUpdates after the loop over the sources: merge the mock updates, sort,
\* build the result.
MergeUpdates(q, r) ==
  IF IsIterable(MockUpdatesShape)
    THEN ToCacheWrite(q, Result("aggregate", r, FALSE, q.got, 1),
                      <<"FETCH_SOURCES", "NORMALIZE">>)
    ELSE OnError(q, r)

\* for (const source of this.sources): go on with the next source, if any.
NextSource(q, r) ==
  IF q.src < NumSources
    THEN [q EXCEPT !.src = q.src + 1, !.i = 0, !.pc = "attempt"]
    ELSE MergeUpdates(q, r)

\* The external call of the current source failed for good (retries used up)
\* or its response was unusable.
SourceFailed(q, r) ==
  IF q.svc = "fetchUpdates"
    THEN NextSource([q EXCEPT !.bad = q.bad \cup {q.src}], r)
    ELSE OnError([q EXCEPT !.bad = {q.src}], r)

\* Which provider the service dispatches to: switch (this.service).
ProviderOf(svc, geo, social, key) ==
  CASE svc \in {"geocode", "reverseGeocode"} -> geo
    [] svc = "fetchReports" -> social
    [] svc = "fetchUpdates" -> "scrape"
    [] OTHER -> IF key THEN "gemini" ELSE "mock"

\* The provider method exists: GeocodingService defines no
\* _reverseGeocodeWithMapbox and no _reverseGeocodeWithNominatim.
HasMethod(svc, provider) ==
  ~(svc = "reverseGeocode" /\ provider \in {"mapbox", "nominatim"})

\* Cache miss: run the provider. A mock provider answers at once, a missing
\* method raises a TypeError, anything else is an external call.
Dispatch(q, r, provider) ==
  IF provider = "mock"
    THEN ToCacheWrite(q, MockResult(q, r, q.svc = "fetchReports"),
                      <<"FETCH_SOURCES", "NORMALIZE">>)
    ELSE IF ~HasMethod(q.svc, provider)
      THEN OnError(q, r)
      ELSE [q EXCEPT !.pc = "attempt", !.i = 0,
                     !.src = IF q.svc = "fetchUpdates" THEN 1 ELSE 0]

\* The external call answered with usable data.
SourceOk(q, r, provider, n) ==
  IF q.svc = "fetchUpdates"
    THEN NextSource([q EXCEPT !.got = IF n > 0 THEN q.got \cup {q.src} ELSE q.got], r)
    ELSE ToCacheWrite(q, Result(provider, r, q.svc = "fetchReports", {}, n),
                      <<"FETCH_SOURCES", "NORMALIZE">>)

\* The external call answered, but without the expected payload: the geocoders
\* and social clients throw, the Gemini clients return their mock, a scraped
\* page simply yields no update.
SourceNoData(q, r) ==
  CASE q.svc \in {"verifyImage", "extractLocation"} ->
         ToCacheWrite(q, MockResult(q, r, FALSE), <<"FETCH_SOURCES", "NORMALIZE">>)
    [] q.svc = "fetchUpdates" -> SourceOk(q, r, "scrape", 0)
    [] OTHER -> SourceFailed(q, r)

\* getCachedData returned v to its caller.
AfterGet(q, r, v) ==
  IF q.entry = "getCachedData"
    THEN [q EXCEPT !.pc = "done", !.res = v, !.hit = v # Null, !.out = "returned"]
    ELSE IF v # Null
      THEN ServiceReturn([q EXCEPT !.hit = TRUE], v)
      ELSE Dispatch(q, r, ProviderOf(q.svc, geoService, socialService, geminiKey))

\* setCachedData returned to its caller.
AfterSet(q) ==
  IF q.entry = "setCachedData"
    THEN [q EXCEPT !.pc = "done", !.out = "returned"]
    ELSE ServiceReturn(q, q.res)

\* ------------------------------------------- Socket.IO rooms (server.js)
Clients == {1, 2}
\* Disaster ids; the room of disaster d is `disaster_<d>`.
DIds == {1, 2}
\* The ids the store gives to inserted disasters (an id is never given twice).
NewIds == {1}

NoSocket == [connected |-> FALSE, rooms |-> {}]
\* The connected sockets; a disconnected socket is in no room.
Online(s) == {c \in Clients : s[c].connected}
Joined(s, d) == {c \in Online(s) : d \in s[c].rooms}

\* req.io.emit(event, ..): every connected socket receives the event.
Everyone(s, d) == Online(s)

\* req.io.to(`disaster_${d}`).emit(event, ..): the sockets in the room do.
InRoomOrNot(s, d) == Online(s)
InRoom(s, d) == {c \in Online(s) : d \in s[c].rooms}

Emitted(event, action, d, to) ==
  [event |-> event, action |-> action, d |-> d, to |-> to,
   joined |-> Joined(sockets, d), online |-> Online(sockets)]

\* The social-media handler emits social_media_updated before it responds,
\* if (socialMediaData.reports.length > 0).
RouteEmits(q2) ==
  q2.entry = "socialRoute" /\ q2.pc = "done" /\ q2.status = 200 /\ q2.data.n > 0

\* Install the new state of request r. The observer of the calls notes when
\* the first call completes.
Commit(r, q2) ==
  /\ req' = [req EXCEPT ![r] =
       IF RouteEmits(q2)
         THEN [q2 EXCEPT !.emit = Emitted("social_media_updated", "none", q2.arg,
                                          InRoom(sockets, q2.arg))]
         ELSE q2]
  /\ firstAt' = IF observer = "calls" /\ r = 1 /\ q2.pc = "done" THEN now ELSE firstAt

\* ------------------------------------------------------------- actions
otherVars == <<cfgVars, sideVars, now, socialTable, officialTable, rt, lastSet>>

\* The service evaluates its cache key and awaits getCachedData(cacheKey).
CallService(q, svc, a) ==
  [q EXCEPT !.svc = svc, !.key = CacheKey(svc, a), !.pc = "get_select",
            !.hit = FALSE, !.i = 0, !.src = 0]

\* A caller invokes one of the six service methods.
\* The coordinates reverseGeocode is called with.
CallLats == {-91, 90, 91}
CallLngs == {-181, 180, 181}

\* isValidCoordinates(lat, lng), of numbers
IsValidCoordinates(lat, lng) ==
  lat >= -90 /\ lat <= 90 /\ lng >= -180 /\ lng <= 180

StartService(r) ==
  /\ req[r].pc = "idle"
  /\ \E svc \in Services, a \in Args, kw \in BOOLEAN,
        lat \in CallLats \cup {ReqIdle.lat}, lng \in CallLngs \cup {ReqIdle.lng} :
       /\ svc = underTest
       /\ IF svc = "reverseGeocode"
            THEN lat \in CallLats /\ lng \in CallLngs
            ELSE lat = ReqIdle.lat /\ lng = ReqIdle.lng
       /\ kw \/ svc \in {"fetchReports", "fetchUpdates"}
       /\ LET valid == svc = "reverseGeocode" => IsValidCoordinates(lat, lng)
              q0 == [ReqIdle EXCEPT !.entry = svc, !.svc = svc, !.arg = a,
                                    !.valid = valid, !.kw = kw,
                                    !.lat = lat, !.lng = lng]
          IN  \* reverseGeocode: if (!isValidCoordinates(lat, lng)) throw
              IF ~valid
                THEN Commit(r, ServiceThrow([q0 EXCEPT !.key = CacheKey(svc, a)]))
                ELSE Commit(r, CallService(q0, svc, a))
  /\ UNCHANGED <<otherVars, cache>>

\* The keys direct adapter calls use: those of the service under test, or the
\* geocode keys when the adapter itself is under test.
DirectKeys ==
  IF underTest \in Services
    THEN {CacheKey(underTest, a) : a \in Args}
    ELSE {CacheKey("geocode", a) : a \in Args}

\* A caller invokes getCachedData(key) directly.
StartGet(r) ==
  /\ req[r].pc = "idle"
  /\ \E k \in DirectKeys :
       Commit(r, [ReqIdle EXCEPT !.entry = "getCachedData", !.key = k,
                                 !.pc = "get_select"])
  /\ UNCHANGED <<otherVars, cache>>

\* A caller invokes setCachedData(key, value, ttlHours) directly.
StartSet(r) ==
  /\ req[r].pc = "idle"
  /\ \E k \in DirectKeys, ttl \in Ttls :
       Commit(r, [ReqIdle EXCEPT !.entry = "setCachedData", !.key = k,
                                 !.ttl = ttl, !.pc = "set_upsert",
                                 !.res = Result("direct", r, FALSE, {}, 1)])
  /\ UNCHANGED <<otherVars, cache>>

\* A caller invokes clearExpiredCache().
StartClear(r) ==
  /\ req[r].pc = "idle"
  /\ Commit(r, [ReqIdle EXCEPT !.entry = "clearExpiredCache", !.pc = "clear"])
  /\ UNCHANGED <<otherVars, cache>>

\* getCachedData: the select answers and the entry is checked for expiry.
GetSelect(r) ==
  LET q == req[r] IN
  /\ q.pc = "get_select"
  /\ IF ~supabase
       THEN Commit(r, AfterGet(q, r, Null))
       ELSE \E ok \in StoreOutcomes :
              LET e == cache[q.key] IN
              IF ~ok
                THEN Commit(r, AfterGet(q, r, Null))
              ELSE IF ~e.present
                THEN Commit(r, AfterGet(q, r, Null))
                ELSE IF IsExpired(e, now)
                  THEN Commit(r, [q EXCEPT !.pc = "get_delete"])
                  ELSE Commit(r, AfterGet(q, r, e.value))
  /\ UNCHANGED <<otherVars, cache>>

\* getCachedData: the delete of the expired entry answers; return null.
GetDelete(r) ==
  LET q == req[r] IN
  /\ q.pc = "get_delete"
  /\ \E ok \in StoreOutcomes :
       /\ cache' = IF ok THEN DeleteKey(cache, q.key) ELSE cache
       /\ Commit(r, AfterGet(q, r, Null))
  /\ UNCHANGED otherVars

\* setCachedData: compute expires_at and upsert the entry.
SetUpsert(r) ==
  LET q == req[r] IN
  /\ q.pc = "set_upsert"
  /\ IF ~supabase
       THEN /\ Commit(r, AfterSet(q))
            /\ UNCHANGED cache
       ELSE \E ok \in StoreOutcomes :
              IF ok
                THEN /\ cache' = Upsert(cache, q.key, q.res, ExpiresAt(now, q.ttl))
                     /\ Commit(r, AfterSet([q EXCEPT !.wrote = TRUE,
                                              !.steps = Log(q, <<"CACHE_WRITE">>)]))
                ELSE /\ Commit(r, AfterSet(q))
                     /\ UNCHANGED cache
  /\ lastSet' = IF observer # "off" /\ req'[r].wrote /\ ~q.wrote
                  THEN [lastSet EXCEPT ![q.key] =
                          [present |-> TRUE, value |-> q.res,
                           expires_at |-> ExpiresAt(now, q.ttl)]]
                  ELSE lastSet
  /\ UNCHANGED <<cfgVars, sideVars, now, socialTable, officialTable, rt>>

\* clearExpiredCache has no null check of the client: the TypeError raised by
\* supabase.from on a null client is caught and logged by its try/catch.
ClearRaisesUncaught(client) == ~client
ClearRaises(client) == FALSE

\* clearExpiredCache: delete every entry whose expires_at is in the past. Without
\* a client, supabase.from raises a TypeError that the catch block logs.
Clear(r) ==
  LET q == req[r] IN
  /\ q.pc = "clear"
  /\ IF ~supabase
       THEN cache' = cache
       ELSE \E ok \in StoreOutcomes :
              cache' = IF ok THEN DeleteExpired(cache, now) ELSE cache
  /\ Commit(r, [q EXCEPT !.pc = "done",
                          !.out = IF ClearRaises(supabase) THEN "threw" ELSE "returned"])
  /\ UNCHANGED otherVars

\* Outcomes of one HTTP call to an external source.
CallOutcomes(svc) ==
  {"data", "nodata", "fail"} \cup (IF svc = "fetchReports" THEN {"empty"} ELSE {})

\* One attempt of retryWithBackoff(() => axios...) answers. A failed attempt
\* that is not the last one is followed, after the backoff delay, by the next.
Attempt(r) ==
  LET q == req[r]
      q1 == [q EXCEPT !.called = TRUE]
      provider == ProviderOf(q.svc, geoService, socialService, geminiKey)
  IN
  /\ q.pc = "attempt"
  /\ \E o \in CallOutcomes(q.svc) :
       CASE o = "data" -> Commit(r, SourceOk(q1, r, provider, 1))
         [] o = "empty" -> Commit(r, SourceOk(q1, r, provider, 0))
         [] o = "nodata" -> Commit(r, SourceNoData(q1, r))
         [] OTHER ->
              IF IsLastAttempt(q.i, DefaultMaxRetries)
                   \/ ~LoopCond(q.i + 1, DefaultMaxRetries)
                THEN Commit(r, SourceFailed(q1, r))
                ELSE Commit(r, [q1 EXCEPT !.i = q.i + 1])
  /\ UNCHANGED <<otherVars, cache>>

\* The clock is only ever compared with stored timestamps: while nothing is
\* stored, time passing cannot be observed.
Observable ==
  \/ \E k \in Keys : cache[k].present \/ lastSet[k].present
  \/ socialTable # {} \/ officialTable # {}

\* How far the clock is followed: one tick past the longest window the code
\* under test compares it with (the geocoding TTL of 24 hours is never reached).
Horizon == IF underTest = "socialRoute" THEN TenMinutes + 1 ELSE MaxTime

\* Time passes.
Tick ==
  /\ now < Horizon
  /\ Observable
  /\ now' = now + 1
  /\ UNCHANGED <<cfgVars, sideVars, cache, socialTable, officialTable, req, rt,
               lastSet, firstAt>>

\* The caller has consumed the outcome; the slot can serve another call.
Reset(r) ==
  /\ req[r].pc = "done"
  /\ req' = [req EXCEPT ![r] = ReqIdle]
  /\ UNCHANGED <<cfgVars, sideVars, now, cache, socialTable, officialTable, rt,
               lastSet, firstAt>>

\* ------------------------------------------------------ route handlers
\* The service a route handler calls, the table it stores into and how far back
\* it looks for rows fetched recently.
RouteService(route) == IF route = "socialRoute" THEN "fetchReports" ELSE "fetchUpdates"
RouteWindow(route) == IF route = "socialRoute" THEN TenMinutes ELSE TicksPerHour

\* .eq('disaster_id', id).gte('fetched_at', now - window)
RecentRows(table, d, t, window) ==
  {row \in table : row.disaster = d /\ row.fetched_at >= t - window}

\* .upsert(rows, {onConflict}): a row with the same natural key is replaced.
UpsertRow(table, row) == {x \in table : x.post # row.post} \cup {row}

\* GET /:id/social-media or GET /:id/official-updates passed validation.
StartRoute(r) ==
  /\ req[r].pc = "idle"
  /\ \E route \in Routes, a \in Args, refresh \in BOOLEAN, kw \in BOOLEAN :
       /\ route = underTest
       /\ Commit(r, [ReqIdle EXCEPT !.entry = route, !.arg = a, !.refresh = refresh,
                                 !.kw = kw, !.pc = "rt_disaster"])
  /\ UNCHANGED <<otherVars, cache>>

DisasterOutcomes ==
  CASE storeFails = "never" -> {"found", "notfound"}
    [] storeFails = "always" -> {"error"}
    [] OTHER -> {"found", "notfound", "error"}

\* The select of the disaster answers. Without a client supabase.from raises a
\* TypeError, answered 500 by the handler's catch.
RtDisaster(r) ==
  LET q == req[r] IN
  /\ q.pc = "rt_disaster"
  /\ IF ~supabase
       THEN Commit(r, Respond(q, 500))
       ELSE \E o \in DisasterOutcomes :
              CASE o = "notfound" -> Commit(r, Respond(q, 404))
                [] o = "error" -> Commit(r, Respond(q, 500))
                [] OTHER ->
                     IF q.refresh
                       THEN Commit(r, CallService(q, RouteService(q.entry), q.arg))
                       ELSE Commit(r, [q EXCEPT !.pc = "rt_recent"])
  /\ UNCHANGED <<otherVars, cache>>

\* The select of the recently fetched rows answers: use them, or call the service.
RtRecent(r) ==
  LET q == req[r]
      table == IF q.entry = "socialRoute" THEN socialTable ELSE officialTable
  IN
  /\ q.pc = "rt_recent"
  /\ \E ok \in StoreOutcomes :
       IF ok /\ RecentRows(table, q.arg, now, RouteWindow(q.entry)) # {}
         THEN Commit(r, RouteWithData(q, Result("database", 0, FALSE, {}, 1)))
         ELSE Commit(r, CallService(q, RouteService(q.entry), q.arg))
  /\ UNCHANGED <<otherVars, cache>>

\* Build the rows to store; the social handler geocodes an extracted location
\* (only processed reports carry one) before it upserts.
RtPersist(r) ==
  LET q == req[r] IN
  /\ q.pc = "rt_persist"
  /\ \E located \in BOOLEAN, a \in Args :
       IF located /\ q.entry = "socialRoute" /\ q.data.proc
         THEN Commit(r, CallService(q, "geocode", a))
         ELSE Commit(r, [q EXCEPT !.pc = "rt_upsert"])
  /\ UNCHANGED <<otherVars, cache>>

\* The upsert into social_media_reports / official_updates answers; a failure
\* is only logged. Then the event is emitted and the response sent.
RtUpsert(r) ==
  LET q == req[r]
      row == [post |-> q.data.source, disaster |-> q.arg, fetched_at |-> now]
  IN
  /\ q.pc = "rt_upsert"
  /\ \E ok \in StoreOutcomes :
       IF ok
         THEN /\ IF q.entry = "socialRoute"
                   THEN /\ socialTable' = UpsertRow(socialTable, row)
                        /\ UNCHANGED officialTable
                   ELSE /\ officialTable' = UpsertRow(officialTable, row)
                        /\ UNCHANGED socialTable
              /\ Commit(r, Respond([q EXCEPT !.persisted = TRUE,
                                             !.steps = Log(q, <<"PERSIST">>)], 200))
         ELSE /\ Commit(r, Respond(q, 200))
              /\ UNCHANGED <<socialTable, officialTable>>
  /\ UNCHANGED <<cfgVars, sideVars, now, rt, cache, lastSet>>

\* --------------------------------------------- users (middleware/auth.js)
Users == {"netrunnerX", "reliefAdmin", "citizen1", "responder1"}

\* Values of the x-user-id header: none, the id of a user, an id nobody has,
\* and the name of a property every plain object inherits.
Headers == Users \cup {"absent", "stranger", "constructor"}

\* mockUsers[..].role and mockUsers[..].permissions
Role(u) ==
  CASE u = "netrunnerX" -> "admin"
    [] u = "reliefAdmin" -> "contributor"
    [] u = "citizen1" -> "reporter"
    [] OTHER -> "responder"

Permissions(u) ==
  CASE u = "netrunnerX" ->
         {"create", "read", "update", "delete", "manage_users", "verify_images"}
    [] u = "reliefAdmin" -> {"create", "read", "update", "verify_reports"}
    [] u = "citizen1" -> {"create", "read"}
    [] u = "responder1" -> {"read", "update", "create_reports"}
    [] OTHER -> {}

NoUser == [kind |-> "undefined", id |-> "undefined"]

\* const user = mockUsers[userId]: mockUsers is a plain object, so the lookup
\* of an inherited property name yields that property (a function: truthy,
\* without id, role or permissions).
MockUsers(userId) ==
  CASE userId \in Users -> [kind |-> "user", id |-> userId]
    [] userId = "constructor" -> [kind |-> "inherited", id |-> "undefined"]
    [] OTHER -> NoUser

\* authMiddleware: the status it answers, or 0 when it calls next().
AuthMiddleware(userId) ==
  IF userId = "absent" THEN 401
  ELSE IF MockUsers(userId).kind = "undefined" THEN 401
  ELSE 0

\* requirePermission(permission): req.user.permissions.includes of an object
\* without permissions raises a TypeError, answered 500 by the catch.
RequirePermission(user, permission) ==
  IF user.kind = "undefined" THEN 401
  ELSE IF user.kind = "inherited" THEN 500
  ELSE IF permission \notin Permissions(user.id) THEN 403
  ELSE 0

IsAdmin(user) == user.kind = "user" /\ Role(user.id) = "admin"

\* requireOwnership(req, res, next) with req.resource = row: the status it
\* answers (its return value is then truthy), or 0 when it calls next().
RequireOwnershipSkipped(row, user) == 0
RequireOwnership(row, user) ==
  IF row.owner_id = "none" THEN 0
  ELSE IF row.owner_id = user.id \/ IsAdmin(user) THEN 0
  ELSE 403

\* ------------------------------------------- audit trail (utils/helpers.js)
\* createAuditEntry(action, userId, details)
CreateAuditEntry(action, userId) == [action |-> action, userId |-> userId]

\* addAuditEntry(existingTrail, action, userId, details): [...trail, newEntry]
AddAuditEntry(existingTrail, action, userId) ==
  Append(existingTrail, CreateAuditEntry(action, userId))

\* The longest audit trail followed.
MaxTrail == 3

NoRow == [present |-> FALSE, owner_id |-> "none", audit_trail |-> <<>>]

\* disasterData of POST /: owner_id: req.user.id, audit_trail:
\* addAuditEntry([], 'create', req.user.id, {title})
DisasterDataNoTrail(user) ==
  [present |-> TRUE, owner_id |-> user.id, audit_trail |-> <<>>]
DisasterData(user) ==
  [present |-> TRUE, owner_id |-> user.id,
   audit_trail |-> AddAuditEntry(<<>>, "create", user.id)]

\* ------------------------------------------------- validation (routes/*.js)
Methods == {"list", "get", "create", "update", "delete", "resources", "verify"}

\* The routes the callers exercise: those of the disasters router, or all.
RouterMethods ==
  IF underTest = "disasters"
    THEN {"list", "get", "create", "update", "delete"} ELSE Methods

\* The permission each route requires before its validation chain.
Required(method) ==
  CASE method \in {"create", "update", "delete"} -> method
    [] method = "resources" -> "read"
    [] method = "verify" -> "verify_images"
    [] OTHER -> "none"

\* Request inputs: the :id parameter (a UUID or some other text), the length
\* of the title, lat and lng, image_url (a URL or some other text).
\* A field the request does not carry (req.body.x === undefined).
Absent == 1000
TitleLens == {2, 3, 200, 201}
Lats == {-91, -90, 90, 91}
Lngs == {-181, -180, 180, 181}
NoInput == [id |-> "uuid", title |-> Absent, lat |-> Absent,
            lng |-> Absent, image_url |-> "url"]

Inputs(method) ==
  CASE method = "create" ->
         {[NoInput EXCEPT !.title = t, !.lat = a, !.lng = g] :
            t \in TitleLens \cup {Absent}, a \in Lats \cup {Absent},
            g \in Lngs \cup {Absent}}
    [] method = "update" ->
         {[NoInput EXCEPT !.id = i, !.title = t, !.lat = a, !.lng = g] :
            i \in {"uuid", "text"}, t \in {Absent, 2, 3},
            a \in {Absent, 90, 91}, g \in {Absent, 180, 181}}
    [] method = "resources" ->
         {[NoInput EXCEPT !.id = i, !.lat = a, !.lng = g] :
            i \in {"uuid", "text"}, a \in Lats \cup {Absent},
            g \in Lngs \cup {Absent}}
    [] method = "verify" ->
         {[NoInput EXCEPT !.id = i, !.image_url = u] :
            i \in {"uuid", "text"}, u \in {"url", "text"}}
    [] method \in {"get", "delete"} ->
         {[NoInput EXCEPT !.id = i] : i \in {"uuid", "text"}}
    [] OTHER -> {NoInput}

\* .isLength({min, max}), .isFloat({min, max}), .optional()
IsLength(len, min, max) == len >= min /\ len <= max
IsFloat(v, min, max) == v >= min /\ v <= max
Optional(v, ok) == v = Absent \/ ok

\* The fields the route's validation chain reports in validationResult(req).
ValidationErrors(method, in) ==
  (IF method \in {"get", "update", "delete", "resources", "verify"}
        /\ in.id # "uuid" THEN {"id"} ELSE {})
  \cup (IF method = "create"
             /\ (in.title = Absent \/ ~IsLength(in.title, 3, 200))
          THEN {"title"} ELSE {})
  \cup (IF method = "update" /\ ~Optional(in.title, IsLength(in.title, 3, 200))
          THEN {"title"} ELSE {})
  \cup (IF method \in {"create", "update", "resources"}
             /\ ~Optional(in.lat, IsFloat(in.lat, -90, 90))
          THEN {"lat"} ELSE {})
  \cup (IF method \in {"create", "update", "resources"}
             /\ ~Optional(in.lng, IsFloat(in.lng, -180, 180))
          THEN {"lng"} ELSE {})
  \cup (IF method = "verify" /\ in.image_url # "url" THEN {"image_url"} ELSE {})

\* if (!errors.isEmpty()) return res.status(400).json(..)
RejectsNothing(errors) == FALSE
Rejects(errors) == errors # {}

\* ------------------------------------- disasters / resources / image routers
\* A request: its x-user-id header, the :id it names, whether its input broke
\* a declared constraint, the row its handler selected, the events it emitted
\* and whether its handler called the store.
HIdle == [pc |-> "idle", method |-> "none", hdr |-> "absent", id |-> 1,
          invalid |-> FALSE, existing |-> NoRow, status |-> 0,
          emits |-> <<>>, touched |-> FALSE]

\* req.user, as authMiddleware set it.
User(q) == MockUsers(q.hdr)

\* Of the selected row the handlers use the owner, and PUT the audit trail
\* until its update is issued.
Kept(row) == [row EXCEPT !.audit_trail = <<>>]

\* res.status(code).json(..): the request is answered.
Answer(q, code) ==
  [q EXCEPT !.pc = "done", !.status = code, !.existing = Kept(q.existing)]

\* The routes that name a disaster in their path.
HasId(method) == method \notin {"list", "create"}

\* The handler's first store call, issued when validation passed. Without a
\* client supabase.from raises a TypeError, answered 500.
FirstCall(method) ==
  CASE method = "list" -> "h_list"
    [] method = "get" -> "h_get"
    [] method = "create" -> "h_insert"
    [] OTHER -> "h_select"

hOther == <<cfgVars, now, cache, socialTable, officialTable, req, lastSet, firstAt, rt,
            sockets, calc>>

\* A request arrives: authMiddleware, then the route's requirePermission.
HStart(r) ==
  /\ hreq[r].pc = "idle"
  /\ \E method \in RouterMethods, userId \in Headers, id \in DIds :
       LET q0 == [HIdle EXCEPT !.method = method, !.hdr = userId, !.id = id]
           auth == AuthMiddleware(userId)
           perm == IF Required(method) = "none" THEN 0
                   ELSE RequirePermission(MockUsers(userId), Required(method))
       IN  /\ HasId(method) \/ id = HIdle.id
           /\ hreq' = [hreq EXCEPT ![r] =
                IF auth # 0 THEN Answer(q0, auth)
                ELSE IF perm # 0 THEN Answer(q0, perm)
                ELSE [q0 EXCEPT !.pc = "h_validate"]]
  /\ UNCHANGED <<hOther, disasters, nextId>>

\* The validation chain ran; the handler checks validationResult(req) and, if
\* it is empty, issues its first store call.
HValidate(r) ==
  LET q == hreq[r] IN
  /\ q.pc = "h_validate"
  /\ \E in \in Inputs(q.method) :
       LET errors == ValidationErrors(q.method, in)
           q1 == [q EXCEPT !.invalid = errors # {}]
       IN  hreq' = [hreq EXCEPT ![r] =
             IF Rejects(errors) THEN Answer(q1, 400)
             ELSE IF ~supabase THEN Answer(q1, 500)
             ELSE [q1 EXCEPT !.pc = FirstCall(q.method), !.touched = TRUE]]
  /\ UNCHANGED <<hOther, disasters, nextId>>

\* GET /: the select answers.
HList(r) ==
  LET q == hreq[r] IN
  /\ q.pc = "h_list"
  /\ \E ok \in StoreOutcomes :
       hreq' = [hreq EXCEPT ![r] = Answer(q, IF ok THEN 200 ELSE 500)]
  /\ UNCHANGED <<hOther, disasters, nextId>>

\* GET /:id: the select of the row answers.
HGet(r) ==
  LET q == hreq[r] IN
  /\ q.pc = "h_get"
  /\ \E ok \in StoreOutcomes :
       hreq' = [hreq EXCEPT ![r] =
         IF ~ok THEN Answer(q, 500)
         ELSE IF ~disasters[q.id].present THEN Answer(q, 404)
         ELSE Answer(q, 200)]
  /\ UNCHANGED <<hOther, disasters, nextId>>

\* POST /: the insert answers; on success disaster_updated is emitted and the
\* request answered 201.
HInsert(r) ==
  LET q == hreq[r] IN
  /\ q.pc = "h_insert"
  /\ nextId \in NewIds
  /\ \E ok \in StoreOutcomes :
       IF ok
         THEN /\ disasters' = [disasters EXCEPT ![nextId] = DisasterData(User(q))]
              /\ nextId' = nextId + 1
              /\ hreq' = [hreq EXCEPT ![r] =
                   Answer([q EXCEPT !.id = nextId,
                              !.emits = Append(q.emits,
                                 Emitted("disaster_updated", "create", nextId,
                                         Everyone(sockets, nextId)))], 201)]
         ELSE /\ hreq' = [hreq EXCEPT ![r] = Answer(q, 500)]
              /\ UNCHANGED <<disasters, nextId>>
  /\ UNCHANGED hOther

\* The step that follows the select of the disaster, per route.
AfterSelect(method) ==
  CASE method = "update" -> "h_update"
    [] method = "delete" -> "h_delete"
    [] method = "resources" -> "h_query"
    [] OTHER -> "h_report"

\* PUT /:id, DELETE /:id, GET /:id/resources, POST /:id/verify-image: the
\* select of the disaster answers; PUT and DELETE then check the ownership.
HSelect(r) ==
  LET q == hreq[r]
      row == disasters[q.id]
  IN
  /\ q.pc = "h_select"
  /\ (q.method = "update" /\ row.present) => Len(row.audit_trail) < MaxTrail
  /\ \E ok \in StoreOutcomes :
       hreq' = [hreq EXCEPT ![r] =
         IF ~ok THEN Answer(q, 500)
         ELSE IF ~row.present THEN Answer(q, 404)
         ELSE IF q.method \in {"update", "delete"}
                   /\ RequireOwnership(row, User(q)) # 0
           THEN Answer([q EXCEPT !.existing = row], RequireOwnership(row, User(q)))
           ELSE [q EXCEPT !.existing = IF q.method = "update" THEN row ELSE Kept(row),
                          !.pc = AfterSelect(q.method)]]
  /\ UNCHANGED <<hOther, disasters, nextId>>

\* updateData of PUT /:id: the columns the update writes. Of title,
\* description, location_name, tags and location, which it takes from the
\* request body, the rows here keep none; audit_trail is the trail read by the
\* select plus the entry of this update.
UpdateDataWithOwner(q) ==
  [owner_id |-> User(q).id,
   audit_trail |-> AddAuditEntry(q.existing.audit_trail, "update", User(q).id)]
UpdateData(q) ==
  [audit_trail |-> AddAuditEntry(q.existing.audit_trail, "update", User(q).id)]

\* .update(updateData).eq('id', id): the columns named are written, the
\* others keep their value.
UpdateRow(row, data) ==
  [f \in DOMAIN row |-> IF f \in DOMAIN data THEN data[f] ELSE row[f]]

\* PUT /:id: the update answers (.single() fails when the row is gone); on
\* success disaster_updated is emitted.
HUpdate(r) ==
  LET q == hreq[r]
      row == disasters[q.id]
  IN
  /\ q.pc = "h_update"
  /\ \E ok \in StoreOutcomes :
       IF ok /\ row.present
         THEN /\ disasters' = [disasters EXCEPT ![q.id] =
                   UpdateRow(row, UpdateData(q))]
              /\ hreq' = [hreq EXCEPT ![r] =
                   Answer([q EXCEPT !.emits = Append(q.emits,
                              Emitted("disaster_updated", "update", q.id,
                                      Everyone(sockets, q.id)))], 200)]
         ELSE /\ hreq' = [hreq EXCEPT ![r] = Answer(q, 500)]
              /\ UNCHANGED disasters
  /\ UNCHANGED <<hOther, nextId>>

\* DELETE /:id: the delete answers; on success disaster_updated is emitted.
HDelete(r) ==
  LET q == hreq[r] IN
  /\ q.pc = "h_delete"
  /\ \E ok \in StoreOutcomes :
       IF ok
         THEN /\ disasters' = [disasters EXCEPT ![q.id] = NoRow]
              /\ hreq' = [hreq EXCEPT ![r] =
                   Answer([q EXCEPT !.emits = Append(q.emits,
                              Emitted("disaster_updated", "delete", q.id,
                                      Everyone(sockets, q.id)))], 200)]
         ELSE /\ hreq' = [hreq EXCEPT ![r] = Answer(q, 500)]
              /\ UNCHANGED disasters
  /\ UNCHANGED <<hOther, nextId>>

\* The resources query answers with rows, with PGRST202 (no such function) or
\* with another error.
QueryOutcomes ==
  (IF TRUE \in StoreOutcomes THEN {"rows", "norpc"} ELSE {})
  \cup (IF FALSE \in StoreOutcomes THEN {"error"} ELSE {})

\* GET /:id/resources: the resources query answers. Without the geospatial
\* function the basic query is run and answered without an event.
HQuery(r) ==
  LET q == hreq[r] IN
  /\ q.pc = "h_query"
  /\ \E o \in QueryOutcomes :
       CASE o = "rows" ->
                 hreq' = [hreq EXCEPT ![r] =
                   Answer([q EXCEPT !.emits = Append(q.emits,
                              Emitted("resources_updated", "none", q.id,
                                      InRoom(sockets, q.id)))], 200)]
            [] o = "norpc" ->
                 hreq' = [hreq EXCEPT ![r] = [q EXCEPT !.pc = "h_fallback"]]
            [] OTHER ->
                 hreq' = [hreq EXCEPT ![r] = Answer(q, 500)]
  /\ UNCHANGED <<hOther, disasters, nextId>>

\* GET /:id/resources: the basic query answers.
HFallback(r) ==
  LET q == hreq[r] IN
  /\ q.pc = "h_fallback"
  /\ \E ok \in StoreOutcomes :
       hreq' = [hreq EXCEPT ![r] = Answer(q, IF ok THEN 200 ELSE 500)]
  /\ UNCHANGED <<hOther, disasters, nextId>>

\* POST /:id/verify-image: the select of the report answered (without a
\* report_id there is none, which is the case of a select that succeeds);
\* await geminiService.verifyImage(image_url) is issued.
HReport(r) ==
  LET q == hreq[r] IN
  /\ q.pc = "h_report"
  /\ \E ok \in StoreOutcomes :
       hreq' = [hreq EXCEPT ![r] =
         IF ok THEN [q EXCEPT !.pc = "h_verify"] ELSE Answer(q, 500)]
  /\ UNCHANGED <<hOther, disasters, nextId>>

\* POST /:id/verify-image: verifyImage returned (it never throws); the report
\* is updated, a failure of which is only logged; image_verified is emitted.
HVerify(r) ==
  LET q == hreq[r] IN
  /\ q.pc = "h_verify"
  /\ hreq' = [hreq EXCEPT ![r] =
       Answer([q EXCEPT !.emits = Append(q.emits,
                  Emitted("image_verified", "none", q.id,
                          InRoom(sockets, q.id)))], 200)]
  /\ UNCHANGED <<hOther, disasters, nextId>>

\* The client has the response; the slot can serve another request.
HReset(r) ==
  /\ hreq[r].pc = "done"
  /\ hreq' = [hreq EXCEPT ![r] = HIdle]
  /\ UNCHANGED <<hOther, disasters, nextId>>

\* ------------------------------------------------ sockets (server.js 72-88)
sOther == <<cfgVars, now, cache, socialTable, officialTable, req, lastSet, firstAt, rt,
            disasters, nextId, hreq, calc>>

\* io.on('connection')
Connect(c) ==
  /\ ~sockets[c].connected
  /\ sockets' = [sockets EXCEPT ![c] = [connected |-> TRUE, rooms |-> {}]]
  /\ UNCHANGED sOther

\* socket.on('join_disaster', id): socket.join(`disaster_${id}`)
JoinDisaster(c, d) ==
  /\ sockets[c].connected
  /\ sockets' = [sockets EXCEPT ![c].rooms = @ \cup {d}]
  /\ UNCHANGED sOther

\* socket.on('leave_disaster', id): socket.leave(`disaster_${id}`)
LeaveDisaster(c, d) ==
  /\ sockets[c].connected
  /\ sockets' = [sockets EXCEPT ![c].rooms = @ \ {d}]
  /\ UNCHANGED sOther

\* socket.on('disconnect'): the socket is gone, and with it its rooms.
Disconnect(c) ==
  /\ sockets[c].connected
  /\ sockets' = [sockets EXCEPT ![c] = NoSocket]
  /\ UNCHANGED sOther

\* ------------------------------------------------- helper evaluations
\* A string is the sequence of its characters.
UpperCase == <<"A", "B", "C", "D", "E", "F", "G", "H", "I", "J", "K", "L", "M", "N", "O", "P", "Q", "R", "S", "T", "U", "V", "W", "X", "Y", "Z">>
LowerCase == <<"a", "b", "c", "d", "e", "f", "g", "h", "i", "j", "k", "l", "m", "n", "o", "p", "q", "r", "s", "t", "u", "v", "w", "x", "y", "z">>

\* String.prototype.toLowerCase
ToLowerChar(c) ==
  IF \E i \in DOMAIN UpperCase : UpperCase[i] = c
    THEN LowerCase[CHOOSE i \in DOMAIN UpperCase : UpperCase[i] = c]
    ELSE c
ToLowerCase(s) == [i \in DOMAIN s |-> ToLowerChar(s[i])]

\* String.prototype.includes
Includes(text, word) ==
  \E i \in 0..(Len(text) - Len(word)) : SubSeq(text, i + 1, i + Len(word)) = word

\* Coordinates are counted in 1/10000 of a degree, the precision of toFixed(4).
Scale == 10000

\* mockLocations of _geocodeMock
MockLocations ==
  {[key |-> <<"m", "a", "n", "h", "a", "t", "t", "a", "n", ",", " ", "n", "y", "c">>,
    lat |-> 407831, lng |-> -739712],
   [key |-> <<"b", "r", "o", "o", "k", "l", "y", "n", ",", " ", "n", "y", "c">>,
    lat |-> 406782, lng |-> -739442],
   [key |-> <<"m", "i", "a", "m", "i", ",", " ", "f", "l">>,
    lat |-> 257617, lng |-> -801918],
   [key |-> <<"h", "o", "u", "s", "t", "o", "n", ",", " ", "t", "x">>,
    lat |-> 297604, lng |-> -953698],
   [key |-> <<"l", "o", "s", " ", "a", "n", "g", "e", "l", "e", "s", ",", " ", "c", "a">>,
    lat |-> 340522, lng |-> -1182437],
   [key |-> <<"c", "h", "i", "c", "a", "g", "o", ",", " ", "i", "l">>,
    lat |-> 418781, lng |-> -876298]}

\* The default centre of _geocodeMock (40.7128, -74.0060), and the values of
\* (Math.random() - 0.5) * 0.1, which lie in [-0.05, 0.05).
DefaultLat == 407128
DefaultLng == -740060
RandomOffsets == {-500, -1, 0, 499}

\* The names geocode is asked for: the six of the table and one it does not
\* hold, each as written, in lower case and in upper case.
LocationNames ==
  {<<"M", "a", "n", "h", "a", "t", "t", "a", "n", ",", " ", "N", "Y", "C">>,
   <<"m", "a", "n", "h", "a", "t", "t", "a", "n", ",", " ", "n", "y", "c">>,
   <<"M", "A", "N", "H", "A", "T", "T", "A", "N", ",", " ", "N", "Y", "C">>,
   <<"B", "r", "o", "o", "k", "l", "y", "n", ",", " ", "N", "Y", "C">>,
   <<"b", "r", "o", "o", "k", "l", "y", "n", ",", " ", "n", "y", "c">>,
   <<"B", "R", "O", "O", "K", "L", "Y", "N", ",", " ", "N", "Y", "C">>,
   <<"M", "i", "a", "m", "i", ",", " ", "F", "L">>,
   <<"m", "i", "a", "m", "i", ",", " ", "f", "l">>,
   <<"M", "I", "A", "M", "I", ",", " ", "F", "L">>,
   <<"H", "o", "u", "s", "t", "o", "n", ",", " ", "T", "X">>,
   <<"h", "o", "u", "s", "t", "o", "n", ",", " ", "t", "x">>,
   <<"H", "O", "U", "S", "T", "O", "N", ",", " ", "T", "X">>,
   <<"L", "o", "s", " ", "A", "n", "g", "e", "l", "e", "s", ",", " ", "C", "A">>,
   <<"l", "o", "s", " ", "a", "n", "g", "e", "l", "e", "s", ",", " ", "c", "a">>,
   <<"L", "O", "S", " ", "A", "N", "G", "E", "L", "E", "S", ",", " ", "C", "A">>,
   <<"C", "h", "i", "c", "a", "g", "o", ",", " ", "I", "L">>,
   <<"c", "h", "i", "c", "a", "g", "o", ",", " ", "i", "l">>,
   <<"C", "H", "I", "C", "A", "G", "O", ",", " ", "I", "L">>,
   <<"N", "o", "w", "h", "e", "r", "e", ",", " ", "Z", "Z">>,
   <<"n", "o", "w", "h", "e", "r", "e", ",", " ", "z", "z">>,
   <<"N", "O", "W", "H", "E", "R", "E", ",", " ", "Z", "Z">>}

\* locationName.split(',')[0]?.trim(): the place of "Manhattan, NYC"
PlaceName(locationName) ==
  IF \E i \in DOMAIN locationName : locationName[i] = ","
    THEN SubSeq(locationName, 1,
                (CHOOSE i \in DOMAIN locationName :
                   /\ locationName[i] = ","
                   /\ \A j \in 1..(i - 1) : locationName[j] # ",") - 1)
    ELSE locationName

\* _geocodeMock(locationName), with the two random draws as arguments
GeocodeMock(locationName, dlat, dlng) ==
  LET key == ToLowerCase(locationName)
      found == {m \in MockLocations : m.key = key}
      coords == IF found # {}
                  THEN CHOOSE m \in found : TRUE
                  ELSE [key |-> key, lat |-> DefaultLat + dlat,
                        lng |-> DefaultLng + dlng]
  IN  [lat |-> coords.lat, lng |-> coords.lng,
       formattedAddress |-> locationName, city |-> PlaceName(locationName),
       source |-> "mock"]

\* Number.prototype.toFixed(4)
DigitChars == <<"0", "1", "2", "3", "4", "5", "6", "7", "8", "9">>

RECURSIVE Digits(_)
Digits(n) ==
  IF n < 10 THEN <<DigitChars[n + 1]>>
  ELSE Append(Digits(n \div 10), DigitChars[(n % 10) + 1])

RECURSIVE Padded(_, _)
Padded(digits, width) ==
  IF Len(digits) >= width THEN digits ELSE Padded(<<"0">> \o digits, width)

ToFixed4(v) ==
  LET a == IF v < 0 THEN 0 - v ELSE v IN
  (IF v < 0 THEN <<"-">> ELSE <<>>)
    \o Digits(a \div Scale) \o <<".">> \o Padded(Digits(a % Scale), 4)

\* _reverseGeocodeMock(lat, lng)
ReverseGeocodeMock(lat, lng) ==
  [formattedAddress |-> ToFixed4(lat) \o <<",", " ">> \o ToFixed4(lng),
   city |-> <<"U", "n", "k", "n", "o", "w", "n", " ", "C", "i", "t", "y">>,
   source |-> "mock"]

\* isValidCoordinates(lat, lng), of coordinates in 1/10000 degree
IsValidFixed(lat, lng) ==
  /\ lat >= -90 * Scale /\ lat <= 90 * Scale
  /\ lng >= -180 * Scale /\ lng <= 180 * Scale

\* _calculatePriorityScore: the keyword lists
UrgentKeywords ==
  <<<<"u", "r", "g", "e", "n", "t">>,
    <<"s", "o", "s">>,
    <<"e", "m", "e", "r", "g", "e", "n", "c", "y">>,
    <<"t", "r", "a", "p", "p", "e", "d">>,
    <<"m", "e", "d", "i", "c", "a", "l">>,
    <<"h", "e", "l", "p">>,
    <<"c", "r", "i", "t", "i", "c", "a", "l">>>>
ModerateKeywords ==
  <<<<"n", "e", "e", "d">>,
    <<"a", "s", "s", "i", "s", "t", "a", "n", "c", "e">>,
    <<"s", "h", "e", "l", "t", "e", "r">>,
    <<"f", "o", "o", "d">>,
    <<"w", "a", "t", "e", "r">>,
    <<"s", "u", "p", "p", "l", "i", "e", "s">>>>
LowKeywords ==
  <<<<"u", "p", "d", "a", "t", "e">>,
    <<"i", "n", "f", "o">>,
    <<"v", "o", "l", "u", "n", "t", "e", "e", "r">>,
    <<"a", "v", "a", "i", "l", "a", "b", "l", "e">>>>

\* keywords.forEach(keyword => { if (text.includes(keyword)) score += weight })
RECURSIVE ForEachKeyword(_, _, _, _)
ForEachKeyword(keywords, text, weight, score) ==
  IF keywords = <<>> THEN score
  ELSE ForEachKeyword(Tail(keywords), text, weight,
                      IF Includes(text, Head(keywords)) THEN score + weight
                      ELSE score)

Min(a, b) == IF a < b THEN a ELSE b

\* _calculatePriorityScore(content)
CalculatePriorityScoreUncapped(content) ==
  ForEachKeyword(LowKeywords, ToLowerCase(content), 1,
    ForEachKeyword(ModerateKeywords, ToLowerCase(content), 2,
      ForEachKeyword(UrgentKeywords, ToLowerCase(content), 3, 1)))
CalculatePriorityScore(content) ==
  LET text == ToLowerCase(content)
      urgent == ForEachKeyword(UrgentKeywords, text, 3, 1)
      moderate == ForEachKeyword(ModerateKeywords, text, 2, urgent)
      low == ForEachKeyword(LowKeywords, text, 1, moderate)
  IN  Min(10, low)

\* The contents scored: up to MaxWords words of a vocabulary, separated by
\* spaces. The vocabulary writes keywords in upper case ("URGENT"), inside a
\* longer word ("helpful") and next to a word that holds none ("the").
Vocabulary ==
  {<<"U", "R", "G", "E", "N", "T">>,
   <<"s", "o", "s">>,
   <<"H", "e", "l", "p">>,
   <<"h", "e", "l", "p", "f", "u", "l">>,
   <<"t", "r", "a", "p", "p", "e", "d">>,
   <<"n", "e", "e", "d">>,
   <<"u", "p", "d", "a", "t", "e">>,
   <<"t", "h", "e">>}

RECURSIVE Join(_)
Join(words) ==
  IF words = <<>> THEN <<>>
  ELSE IF Len(words) = 1 THEN Head(words)
  ELSE Head(words) \o <<" ">> \o Join(Tail(words))

Contents == {Join(ws) : ws \in UNION {[1..n -> Vocabulary] : n \in 0..MaxWords}}

\* No verification result yet.
NoVerification == [isAuthentic |-> FALSE, confidence |-> 0, source |-> "none"]

\* One evaluation: its position, the input and the values computed so far.
CalcIdle == [pc |-> "idle", name |-> <<>>, lat |-> 0, lng |-> 0,
             address |-> <<>>, content |-> <<>>, score |-> 0,
             category |-> "none", url |-> <<>>, result |-> NoVerification,
             single |-> "none", batch |-> "none", method |-> "none",
             path |-> <<>>, handler |-> [router |-> "none", pattern |-> <<>>],
             site |-> [kind |-> "none", at |-> "none", status |-> 0,
                       by |-> "none", code |-> Absent],
             errors |-> [array |-> TRUE, items |-> <<>>, value |-> ""],
             response |-> [status |-> 0, fields |-> {}, success |-> FALSE,
                           errors |-> <<>>, statusCode |-> Absent],
             service |-> "none", first |-> <<>>, second |-> <<>>,
             key |-> [prefix |-> "none", digits |-> <<>>],
             storedFor |-> <<>>, hit |-> FALSE, answerFor |-> <<>>,
             body |-> [lat |-> Absent, lng |-> Absent, typ |-> "number"],
             stored |-> [status |-> 0,
                         location |-> [kind |-> "none", lat |-> 0, lng |-> 0]]]

calcOther == <<cfgVars, now, cache, socialTable, officialTable, req, lastSet, firstAt,
               rt, disasters, nextId, hreq, sockets>>

\* geocode(name) when the provider is unavailable: catch -> _geocodeMock
CalcGeocode ==
  /\ calc.pc = "name"
  /\ \E dlat \in RandomOffsets, dlng \in RandomOffsets :
       LET result == GeocodeMock(calc.name, dlat, dlng) IN
       calc' = [calc EXCEPT !.pc = "geocoded", !.lat = result.lat,
                            !.lng = result.lng,
                            !.address = result.formattedAddress]
  /\ UNCHANGED calcOther

\* reverseGeocode(lat, lng) of the coordinates geocode returned, when the
\* provider is unavailable: the range check, then catch -> _reverseGeocodeMock
CalcReverse ==
  /\ calc.pc = "geocoded"
  /\ calc' = IF ~IsValidFixed(calc.lat, calc.lng)
               THEN [calc EXCEPT !.pc = "threw"]
               ELSE [calc EXCEPT !.pc = "reversed",
                       !.address = ReverseGeocodeMock(calc.lat, calc.lng).formattedAddress]
  /\ UNCHANGED calcOther

\* _calculatePriorityScore(report.content)
CalcScore ==
  /\ calc.pc = "content"
  /\ calc' = [calc EXCEPT !.pc = "scored",
                          !.score = CalculatePriorityScore(calc.content)]
  /\ UNCHANGED calcOther

\* _categorizeReport: the categories and their keywords, in the order of
\* Object.entries(categories)
Categories ==
  <<[category |-> "medical",
    keywords |-> <<<<"m", "e", "d", "i", "c", "a", "l">>,
                   <<"i", "n", "j", "u", "r", "e", "d">>,
                   <<"h", "o", "s", "p", "i", "t", "a", "l">>,
                   <<"a", "m", "b", "u", "l", "a", "n", "c", "e">>,
                   <<"d", "o", "c", "t", "o", "r">>>>],
   [category |-> "shelter",
    keywords |-> <<<<"s", "h", "e", "l", "t", "e", "r">>,
                   <<"h", "o", "u", "s", "i", "n", "g">>,
                   <<"a", "c", "c", "o", "m", "m", "o", "d", "a", "t", "i", "o", "n">>,
                   <<"p", "l", "a", "c", "e", " ", "t", "o", " ", "s", "t", "a", "y">>>>],
   [category |-> "food_water",
    keywords |-> <<<<"f", "o", "o", "d">>,
                   <<"w", "a", "t", "e", "r">>,
                   <<"h", "u", "n", "g", "r", "y">>,
                   <<"t", "h", "i", "r", "s", "t", "y">>,
                   <<"s", "u", "p", "p", "l", "i", "e", "s">>>>],
   [category |-> "rescue",
    keywords |-> <<<<"t", "r", "a", "p", "p", "e", "d">>,
                   <<"r", "e", "s", "c", "u", "e">>,
                   <<"s", "t", "u", "c", "k">>,
                   <<"h", "e", "l", "p">>,
                   <<"s", "o", "s">>>>],
   [category |-> "information",
    keywords |-> <<<<"u", "p", "d", "a", "t", "e">>,
                   <<"i", "n", "f", "o">>,
                   <<"s", "t", "a", "t", "u", "s">>,
                   <<"n", "e", "w", "s">>,
                   <<"r", "e", "p", "o", "r", "t">>>>],
   [category |-> "volunteer",
    keywords |-> <<<<"v", "o", "l", "u", "n", "t", "e", "e", "r">>,
                   <<"h", "e", "l", "p", "i", "n", "g">>,
                   <<"a", "s", "s", "i", "s", "t">>,
                   <<"s", "u", "p", "p", "o", "r", "t">>>>],
   [category |-> "infrastructure",
    keywords |-> <<<<"p", "o", "w", "e", "r">>,
                   <<"e", "l", "e", "c", "t", "r", "i", "c", "i", "t", "y">>,
                   <<"r", "o", "a", "d">>,
                   <<"b", "r", "i", "d", "g", "e">>,
                   <<"w", "a", "t", "e", "r", " ", "s", "y", "s", "t", "e", "m">>>>]>>

\* keywords.some(keyword => text.includes(keyword))
Some(keywords, text) == \E i \in DOMAIN keywords : Includes(text, keywords[i])

\* for (const [category, keywords] of Object.entries(categories)) from entry i
RECURSIVE LastFrom(_, _, _)
LastFrom(i, text, found) ==
  IF i > Len(Categories) THEN found
  ELSE LastFrom(i + 1, text,
                IF Some(Categories[i].keywords, text)
                  THEN Categories[i].category ELSE found)

RECURSIVE FirstFrom(_, _)
FirstFrom(i, text) ==
  IF i > Len(Categories) THEN "general"
  ELSE IF Some(Categories[i].keywords, text) THEN Categories[i].category
  ELSE FirstFrom(i + 1, text)

\* _categorizeReport(content)
CategorizeReportLast(content) == LastFrom(1, ToLowerCase(content), "general")
CategorizeReport(content) == FirstFrom(1, ToLowerCase(content))

\* The words of the contents categorized; "helping" holds the rescue keyword
\* "help" and the volunteer keyword "helping".
CategoryWords ==
  {<<"H", "o", "s", "p", "i", "t", "a", "l">>,
   <<"s", "h", "e", "l", "t", "e", "r">>,
   <<"w", "a", "t", "e", "r">>,
   <<"h", "e", "l", "p", "i", "n", "g">>,
   <<"n", "e", "w", "s">>,
   <<"s", "u", "p", "p", "o", "r", "t">>,
   <<"r", "o", "a", "d">>}

CategoryContents ==
  {Join(ws) : ws \in UNION {[1..n -> CategoryWords] : n \in 0..MaxWords}}

\* _categorizeReport(report.content), on a new content or once more on the same
CalcCategorize ==
  /\ calc.pc \in {"text", "categorized"}
  /\ calc' = [calc EXCEPT !.pc = "categorized",
                          !.category = CategorizeReport(calc.content)]
  /\ UNCHANGED calcOther

\* ---------------------------------------------------- image verification
\* The image URLs verified: one that holds none of 'fake', 'test', 'mock',
\* and three that hold one each ("latest.jpg" holds 'test').
ImageUrls ==
  {<<"f", "l", "o", "o", "d", ".", "j", "p", "g">>,
   <<"f", "a", "k", "e", ".", "j", "p", "g">>,
   <<"l", "a", "t", "e", "s", "t", ".", "j", "p", "g">>,
   <<"m", "o", "c", "k", ".", "p", "n", "g">>}

\* What the model may answer in the JSON field "confidence": numbers inside
\* and outside 0..100, or no such field (Absent). A comparison with an
\* absent value is false.
Confidences == {-5, 0, 49, 50, 79, 80, 100, 150, Absent}
AtLeast(v, n) == v # Absent /\ v >= n
Below(v, n) == v # Absent /\ v < n

\* Math.floor(Math.random() * 30), which lies in 0..29
RandomSteps == {0, 9, 10, 29}

\* _verifyImageMock(imageUrl), with the random draw as argument
VerifyImageMock(imageUrl, k) ==
  [isAuthentic |-> /\ ~Includes(imageUrl, <<"f", "a", "k", "e">>)
                   /\ ~Includes(imageUrl, <<"t", "e", "s", "t">>)
                   /\ ~Includes(imageUrl, <<"m", "o", "c", "k">>),
   confidence |-> k + 70, source |-> "mock"]

\* _verifyImageWithAPI: return { ...analysis, source: 'gemini' }
VerifyImageParsed(analysis) ==
  [isAuthentic |-> analysis.isAuthentic, confidence |-> analysis.confidence,
   source |-> "gemini"]

\* _verifyImageWithAPI, JSON.parse failed: the text decides, confidence: 70
VerifyImageText(saysFake) ==
  [isAuthentic |-> ~saysFake, confidence |-> 70, source |-> "gemini"]

\* The results verifyImage(imageUrl) can return on a cache miss: with an API
\* key the parsed analysis, the text analysis, or the mock result when the
\* response holds no candidate or the call fails; without a key the mock.
VerifyResults(imageUrl) ==
  {VerifyImageMock(imageUrl, k) : k \in RandomSteps}
    \cup (IF geminiKey
            THEN {VerifyImageParsed([isAuthentic |-> a, confidence |-> c]) :
                    a \in BOOLEAN, c \in Confidences}
                   \cup {VerifyImageText(f) : f \in BOOLEAN}
            ELSE {})

\* POST /:id/verify-image: verificationStatus
VerificationStatusLax(verificationResult) ==
  IF verificationResult.isAuthentic THEN "verified" ELSE "rejected"
VerificationStatus(verificationResult) ==
  IF verificationResult.isAuthentic /\ AtLeast(verificationResult.confidence, 80)
    THEN "verified"
  ELSE IF ~verificationResult.isAuthentic
            \/ Below(verificationResult.confidence, 50)
    THEN "rejected"
  ELSE "pending"

\* POST /batch: verificationStatus
BatchVerificationStatus(verificationResult) ==
  IF verificationResult.isAuthentic /\ AtLeast(verificationResult.confidence, 80)
    THEN "verified"
  ELSE IF ~verificationResult.isAuthentic
            \/ Below(verificationResult.confidence, 50)
    THEN "rejected"
  ELSE "pending"

\* geminiService.verifyImage(image_url) returned
CalcVerify ==
  /\ calc.pc = "image"
  /\ \E result \in VerifyResults(calc.url) :
       calc' = [calc EXCEPT !.pc = "verified", !.result = result]
  /\ UNCHANGED calcOther

\* The single-image handler and the batch handler derive the status.
CalcSingleStatus ==
  /\ calc.pc = "verified" /\ calc.single = "none"
  /\ calc' = [calc EXCEPT !.single = VerificationStatus(calc.result)]
  /\ UNCHANGED calcOther

CalcBatchStatus ==
  /\ calc.pc = "verified" /\ calc.batch = "none"
  /\ calc' = [calc EXCEPT !.batch = BatchVerificationStatus(calc.result)]
  /\ UNCHANGED calcOther

\* ------------------------------------------------------------ routing
\* A path is the sequence of its segments; ":id" is a route parameter.
\* app.use(prefix, authMiddleware, router), in the order of server.js, each
\* with the routes of its router in the order they are declared.
Mounts ==
  <<[router |-> "disasters", prefix |-> <<"api", "disasters">>,
     routes |-> <<[method |-> "GET", pattern |-> <<>>],
                  [method |-> "GET", pattern |-> <<":id">>],
                  [method |-> "POST", pattern |-> <<>>],
                  [method |-> "PUT", pattern |-> <<":id">>],
                  [method |-> "DELETE", pattern |-> <<":id">>]>>],
    [router |-> "geocode", prefix |-> <<"api", "geocode">>,
     routes |-> <<[method |-> "POST", pattern |-> <<>>],
                  [method |-> "GET", pattern |-> <<"reverse">>],
                  [method |-> "POST", pattern |-> <<"batch">>]>>],
    [router |-> "socialMedia", prefix |-> <<"api", "social-media">>,
     routes |-> <<[method |-> "GET", pattern |-> <<":id", "social-media">>],
                  [method |-> "GET", pattern |-> <<"priority">>],
                  [method |-> "GET", pattern |-> <<"stats">>]>>],
    [router |-> "resources", prefix |-> <<"api", "resources">>,
     routes |-> <<[method |-> "GET", pattern |-> <<":id", "resources">>],
                  [method |-> "GET", pattern |-> <<"nearby">>],
                  [method |-> "GET", pattern |-> <<"types">>]>>],
    [router |-> "officialUpdates", prefix |-> <<"api", "official-updates">>,
     routes |-> <<[method |-> "GET", pattern |-> <<":id", "official-updates">>],
                  [method |-> "GET", pattern |-> <<"sources">>],
                  [method |-> "GET", pattern |-> <<"recent">>],
                  [method |-> "GET", pattern |-> <<"stats">>]>>],
    [router |-> "imageVerification", prefix |-> <<"api", "verify-image">>,
     routes |-> <<[method |-> "POST", pattern |-> <<":id", "verify-image">>],
                  [method |-> "POST", pattern |-> <<"batch">>],
                  [method |-> "GET", pattern |-> <<"stats">>]>>]>>

RequestMethods == {"GET", "POST", "PUT", "DELETE"}
RequestPaths ==
  {<<"health">>,
   <<"nowhere">>,
   <<"api", "disasters">>,
   <<"api", "disasters", "d1">>,
   <<"api", "disasters", "d1", "social-media">>,
   <<"api", "disasters", "d1", "resources">>,
   <<"api", "disasters", "d1", "official-updates">>,
   <<"api", "disasters", "d1", "verify-image">>,
   <<"api", "geocode">>,
   <<"api", "geocode", "reverse">>,
   <<"api", "geocode", "batch">>,
   <<"api", "social-media", "d1", "social-media">>,
   <<"api", "social-media", "priority">>,
   <<"api", "social-media", "stats">>,
   <<"api", "resources", "d1", "resources">>,
   <<"api", "resources", "nearby">>,
   <<"api", "resources", "types">>,
   <<"api", "official-updates", "d1", "official-updates">>,
   <<"api", "official-updates", "sources">>,
   <<"api", "official-updates", "recent">>,
   <<"api", "official-updates", "stats">>,
   <<"api", "verify-image", "d1", "verify-image">>,
   <<"api", "verify-image", "batch">>,
   <<"api", "verify-image", "stats">>}

NotFound == [router |-> "404", pattern |-> <<>>]
HealthCheck == [router |-> "health", pattern |-> <<"health">>]

\* A route pattern matches a path of the same length, segment by segment.
Matches(pattern, path) ==
  /\ Len(pattern) = Len(path)
  /\ \A i \in DOMAIN pattern : pattern[i] = ":id" \/ pattern[i] = path[i]

\* A mount matches the paths that begin with its prefix.
Under(prefix, path) ==
  Len(path) >= Len(prefix) /\ SubSeq(path, 1, Len(prefix)) = prefix

\* The first route of the router that takes the request, or NotFound.
RECURSIVE RouteFrom(_, _, _, _)
RouteFrom(i, mount, method, rest) ==
  IF i > Len(mount.routes) THEN NotFound
  ELSE IF mount.routes[i].method = method /\ Matches(mount.routes[i].pattern, rest)
    THEN [router |-> mount.router, pattern |-> mount.routes[i].pattern]
  ELSE RouteFrom(i + 1, mount, method, rest)

\* The mounts in order; a router that has no route for the request calls
\* next(), and app.use('*') answers what no mount took.
RECURSIVE MountFrom(_, _, _)
MountFrom(i, method, path) ==
  IF i > Len(Mounts) THEN NotFound
  ELSE LET found == IF Under(Mounts[i].prefix, path)
                      THEN RouteFrom(1, Mounts[i], method,
                                     SubSeq(path, Len(Mounts[i].prefix) + 1, Len(path)))
                      ELSE NotFound
       IN  IF found # NotFound THEN found ELSE MountFrom(i + 1, method, path)

\* The handler an authenticated request reaches.
HandlerOf(method, path) ==
  IF method = "GET" /\ path = HealthCheck.pattern THEN HealthCheck
  ELSE MountFrom(1, method, path)

\* express dispatches the request.
CalcRoute ==
  /\ calc.pc = "request"
  /\ calc' = [calc EXCEPT !.pc = "routed",
                          !.handler = HandlerOf(calc.method, calc.path)]
  /\ UNCHANGED calcOther

\* ---------------------------------------------------- error responses
\* The body of a response is the set of its fields with the values of
\* success, errors and statusCode; Absent stands for a missing statusCode.
\* The errors argument is an array, or a single value ("" is falsy).
ErrorArgs ==
  {[array |-> TRUE, items |-> <<>>, value |-> ""],
   [array |-> TRUE, items |-> <<"e1">>, value |-> ""],
   [array |-> TRUE, items |-> <<"e1", "e2">>, value |-> ""],
   [array |-> FALSE, items |-> <<>>, value |-> "e1"],
   [array |-> FALSE, items |-> <<>>, value |-> ""]}

\* Array.isArray(errors) ? errors : [errors].filter(Boolean)
ErrorList(errors) ==
  IF errors.array THEN errors.items
  ELSE SelectSeq(<<errors.value>>, LAMBDA v : v # "")

DefaultStatusCode == 500

\* formatErrorResponse(message, errors = [], statusCode = 500)
FormatErrorResponse(errors, statusCode) ==
  [fields |-> {"success", "data", "message", "errors", "statusCode", "timestamp"},
   success |-> FALSE, errors |-> ErrorList(errors),
   statusCode |-> IF statusCode = Absent THEN DefaultStatusCode ELSE statusCode]

\* validationErrorHandler(errors)
ValidationErrorHandler(errors) ==
  [fields |-> {"success", "message", "errors", "timestamp"},
   success |-> FALSE, errors |-> errors.items, statusCode |-> Absent]

\* The handler of the rate limiters.
RateLimitBody ==
  [fields |-> {"success", "message", "retryAfter", "timestamp"},
   success |-> FALSE, errors |-> <<>>, statusCode |-> Absent]

\* app.use('*'): { error, message }
RouteNotFoundBody ==
  [fields |-> {"error", "message"},
   success |-> FALSE, errors |-> <<>>, statusCode |-> Absent]

\* The places that answer with an error: the HTTP status each sets, the
\* function that builds the body and the statusCode argument it is given.
ErrorSites ==
  {[kind |-> "validation", at |-> "disasters", status |-> 400, by |-> "validation", code |-> Absent],
   [kind |-> "validation", at |-> "geocode", status |-> 400, by |-> "format", code |-> 400],
   [kind |-> "authentication", at |-> "authMiddleware", status |-> 401, by |-> "format", code |-> 401],
   [kind |-> "authentication", at |-> "requirePermission", status |-> 401, by |-> "format", code |-> 401],
   [kind |-> "authorization", at |-> "requirePermission", status |-> 403, by |-> "format", code |-> 403],
   [kind |-> "authorization", at |-> "requireRole", status |-> 403, by |-> "format", code |-> 403],
   [kind |-> "authorization", at |-> "requireOwnership", status |-> 403, by |-> "format", code |-> 403],
   [kind |-> "exception", at |-> "authMiddleware", status |-> 500, by |-> "format", code |-> 500],
   [kind |-> "notFound", at |-> "disasters", status |-> 404, by |-> "format", code |-> 404],
   [kind |-> "exception", at |-> "disasters", status |-> 500, by |-> "format", code |-> Absent],
   [kind |-> "exception", at |-> "geocode", status |-> 500, by |-> "format", code |-> 500],
   [kind |-> "exception", at |-> "errorHandler", status |-> 500, by |-> "format", code |-> 500],
   [kind |-> "exception", at |-> "errorHandler", status |-> 502, by |-> "format", code |-> 502],
   [kind |-> "rateLimit", at |-> "generalRateLimit", status |-> 429, by |-> "rateLimit", code |-> Absent],
   [kind |-> "rateLimit", at |-> "userRateLimit", status |-> 429, by |-> "rateLimit", code |-> Absent],
   [kind |-> "unknownRoute", at |-> "server", status |-> 404, by |-> "routeNotFound", code |-> Absent]}

\* res.status(site.status).json(body)
ErrorResponse(site, errors) ==
  [status |-> site.status] @@
  CASE site.by = "format" -> FormatErrorResponse(errors, site.code)
    [] site.by = "validation" -> ValidationErrorHandler(errors)
    [] site.by = "rateLimit" -> RateLimitBody
    [] OTHER -> RouteNotFoundBody

\* A request fails at a site and the site answers.
CalcRespond ==
  /\ calc.pc = "failing"
  /\ calc' = [calc EXCEPT !.pc = "responded",
                          !.response = ErrorResponse(calc.site, calc.errors)]
  /\ UNCHANGED calcOther

\* ----------------------------------------------------------- cache keys
\* A string is the sequence of its bytes (Buffer.from(s)); a base64 text is
\* the sequence of its 6-bit digits, Pad standing for "=".
Pad == 64
KeyLength == 50

\* Location names, as UTF-8 bytes:
\*   NYC
\*   nyc
\*   Intersection of Broadway and West 42nd Street, Manhattan
\*   Intersection of Broadway and West 42nd Avenue, Brooklyn
KeyNames ==
  {<<78, 89, 67>>,
   <<110, 121, 99>>,
   <<73, 110, 116, 101, 114, 115, 101, 99, 116, 105, 111, 110, 32, 111, 102, 32, 66, 114, 111, 97, 100, 119, 97, 121, 32, 97, 110, 100, 32, 87, 101, 115, 116, 32, 52, 50, 110, 100, 32, 83, 116, 114, 101, 101, 116, 44, 32, 77, 97, 110, 104, 97, 116, 116, 97, 110>>,
   <<73, 110, 116, 101, 114, 115, 101, 99, 116, 105, 111, 110, 32, 111, 102, 32, 66, 114, 111, 97, 100, 119, 97, 121, 32, 97, 110, 100, 32, 87, 101, 115, 116, 32, 52, 50, 110, 100, 32, 65, 118, 101, 110, 117, 101, 44, 32, 66, 114, 111, 111, 107, 108, 121, 110>>}

\* Image URLs, as UTF-8 bytes:
\*   http://a.io/1.png
\*   http://a.io/2.png
\*   https://cdn.example.org/disaster-images/2024/flood.jpg
\*   https://cdn.example.org/disaster-images/2023/fake.jpg
KeyUrls ==
  {<<104, 116, 116, 112, 58, 47, 47, 97, 46, 105, 111, 47, 49, 46, 112, 110, 103>>,
   <<104, 116, 116, 112, 58, 47, 47, 97, 46, 105, 111, 47, 50, 46, 112, 110, 103>>,
   <<104, 116, 116, 112, 115, 58, 47, 47, 99, 100, 110, 46, 101, 120, 97, 109, 112, 108, 101, 46, 111, 114, 103, 47, 100, 105, 115, 97, 115, 116, 101, 114, 45, 105, 109, 97, 103, 101, 115, 47, 50, 48, 50, 52, 47, 102, 108, 111, 111, 100, 46, 106, 112, 103>>,
   <<104, 116, 116, 112, 115, 58, 47, 47, 99, 100, 110, 46, 101, 120, 97, 109, 112, 108, 101, 46, 111, 114, 103, 47, 100, 105, 115, 97, 115, 116, 101, 114, 45, 105, 109, 97, 103, 101, 115, 47, 50, 48, 50, 51, 47, 102, 97, 107, 101, 46, 106, 112, 103>>}

\* Descriptions, as UTF-8 bytes:
\*   Flooding in Queens
\*   Fire in Queens
\*   Heavy flooding reported this morning near the river in Albany
\*   Heavy flooding reported this morning near the river in Boston
KeyDescriptions ==
  {<<70, 108, 111, 111, 100, 105, 110, 103, 32, 105, 110, 32, 81, 117, 101, 101, 110, 115>>,
   <<70, 105, 114, 101, 32, 105, 110, 32, 81, 117, 101, 101, 110, 115>>,
   <<72, 101, 97, 118, 121, 32, 102, 108, 111, 111, 100, 105, 110, 103, 32, 114, 101, 112, 111, 114, 116, 101, 100, 32, 116, 104, 105, 115, 32, 109, 111, 114, 110, 105, 110, 103, 32, 110, 101, 97, 114, 32, 116, 104, 101, 32, 114, 105, 118, 101, 114, 32, 105, 110, 32, 65, 108, 98, 97, 110, 121>>,
   <<72, 101, 97, 118, 121, 32, 102, 108, 111, 111, 100, 105, 110, 103, 32, 114, 101, 112, 111, 114, 116, 101, 100, 32, 116, 104, 105, 115, 32, 109, 111, 114, 110, 105, 110, 103, 32, 110, 101, 97, 114, 32, 116, 104, 101, 32, 114, 105, 118, 101, 114, 32, 105, 110, 32, 66, 111, 115, 116, 111, 110>>}

\* String.prototype.toLowerCase on ASCII bytes
LowerBytes(bytes) ==
  [i \in DOMAIN bytes |-> IF bytes[i] >= 65 /\ bytes[i] <= 90 THEN bytes[i] + 32
                          ELSE bytes[i]]

\* Buffer.toString('base64'): three bytes give four digits, the last group
\* is padded.
Base64(bytes) ==
  LET n == Len(bytes)
      At(i) == IF i <= n THEN bytes[i] ELSE 0
  IN  [j \in 1..(4 * ((n + 2) \div 3)) |->
         LET g == (j - 1) \div 4
             k == (j - 1) % 4
             b1 == At(3 * g + 1)
             b2 == At(3 * g + 2)
             b3 == At(3 * g + 3)
         IN  CASE k = 0 -> b1 \div 4
               [] k = 1 -> (b1 % 4) * 16 + b2 \div 16
               [] k = 2 -> IF 3 * g + 2 > n THEN Pad ELSE (b2 % 16) * 4 + b3 \div 64
               [] OTHER -> IF 3 * g + 3 > n THEN Pad ELSE b3 % 64]

\* String.prototype.slice(0, end)
Slice(text, end) == SubSeq(text, 1, IF Len(text) < end THEN Len(text) ELSE end)

\* The cache key of a call of the service.
CacheKeyOf(service, input) ==
  [prefix |-> Prefix(service),
   digits |-> Slice(Base64(IF service = "geocode" THEN LowerBytes(input) ELSE input),
                    KeyLength)]

\* The first call misses, computes its result and caches it under its key.
CalcFirstCall ==
  /\ calc.pc = "cold"
  /\ calc' = [calc EXCEPT !.pc = "cached",
                          !.key = CacheKeyOf(calc.service, calc.first),
                          !.storedFor = calc.first]
  /\ UNCHANGED calcOther

\* The second call returns what is cached under its key, or its own result.
CalcSecondCall ==
  /\ calc.pc = "cached"
  /\ LET hit == CacheKeyOf(calc.service, calc.second) = calc.key
     IN  calc' = [calc EXCEPT !.pc = "answered",
                              !.hit = hit,
                              !.answerFor = IF hit THEN calc.storedFor
                                            ELSE calc.second]
  /\ UNCHANGED calcOther

\* ------------------------------------------------- location of a disaster
\* The body of POST /: lat and lng (Absent when the body does not carry the
\* field) and whether the JSON values are numbers or strings.
BodyLats == {-91, -90, 0, 45, 90, Absent}
BodyLngs == {-181, -180, 0, 45, 180, Absent}
BodyTypes == {"number", "string"}

NoPoint == [kind |-> "none", lat |-> 0, lng |-> 0]
PointThrows == [kind |-> "throws", lat |-> 0, lng |-> 0]

\* The truth value JavaScript gives a body field: undefined and the number 0
\* are falsy, a non-empty string is truthy.
Truthy(v, typ) == v # Absent /\ ~(typ = "number" /\ v = 0)

\* coordinatesToPoint(lat, lng): `POINT(${lng} ${lat})`, or an Error when
\* isValidCoordinates (numbers within range) does not hold.
CoordinatesToPoint(lat, lng, typ) ==
  IF typ = "number" /\ IsValidCoordinates(lat, lng)
    THEN [kind |-> "point", lat |-> lat, lng |-> lng]
    ELSE PointThrows

\* if (lat && lng) disasterData.location = coordinatesToPoint(lat, lng)
LocationOf(in) ==
  IF Truthy(in.lat, in.typ) /\ Truthy(in.lng, in.typ)
    THEN CoordinatesToPoint(in.lat, in.lng, in.typ)
    ELSE NoPoint

\* POST / by a user who may create, against a store that answers: the
\* validation chain, then disasterData and the insert. An Error raised by
\* the handler is answered 500 by the error handler.
CalcCreate ==
  /\ calc.pc = "posting"
  /\ LET in == calc.body
         invalid == \/ ~Optional(in.lat, IsFloat(in.lat, -90, 90))
                    \/ ~Optional(in.lng, IsFloat(in.lng, -180, 180))
         location == LocationOf(in)
     IN  calc' = [calc EXCEPT !.pc = "posted",
                    !.stored = IF invalid THEN [status |-> 400, location |-> NoPoint]
                               ELSE IF location = PointThrows
                                 THEN [status |-> 500, location |-> NoPoint]
                               ELSE [status |-> 201, location |-> location]]
  /\ UNCHANGED calcOther

\* ------------------------------------------------------- specifications
InitState ==
  /\ now = 0
  /\ cache = [k \in Keys |-> NoEntry]
  /\ socialTable = {} /\ officialTable = {}
  /\ req = [r \in Reqs |-> ReqIdle]
  /\ lastSet = [k \in Keys |-> NoEntry]
  /\ firstAt = 0
  /\ rt = RtIdle
  /\ disasters = [d \in DIds |-> NoRow]
  /\ nextId = 1
  /\ hreq = [r \in Reqs |-> HIdle]
  /\ sockets = [c \in Clients |-> NoSocket]

InitCommon == InitState /\ calc = CalcIdle

GeoServices == {"google", "mapbox", "nominatim"}

\* this.service = this.googleMapsApiKey ? 'google' :
\*                this.mapboxToken ? 'mapbox' : 'nominatim'
ServiceForLast(keys) ==
  IF keys.mapbox THEN "mapbox" ELSE IF keys.google THEN "google" ELSE "nominatim"
ServiceFor(keys) ==
  IF keys.google THEN "google" ELSE IF keys.mapbox THEN "mapbox" ELSE "nominatim"
SocialServices == {"twitter", "bluesky", "mock"}

\* The store is unconfigured, or configured and failing now and then, or
\* configured and unreachable. (A store that fails now and then behaves in
\* every way a reliable one does.)
InitStore ==
  /\ supabase \in BOOLEAN
  /\ storeFails \in (IF supabase THEN {"sometimes", "always"} ELSE {"never"})

\* The provider configuration matters to the service under test only; the
\* services share no state (their cache keys have distinct prefixes), so the
\* callers exercise one of them at a time, under any configuration of it.
InitProviders(uses) ==
  /\ geoKeys \in (IF uses \cap {"geocode", "reverseGeocode"} # {}
                     THEN [google : BOOLEAN, mapbox : BOOLEAN]
                     ELSE {[google |-> FALSE, mapbox |-> FALSE]})
  /\ geoService = ServiceFor(geoKeys)
  /\ socialService \in (IF "fetchReports" \in uses
                           THEN SocialServices ELSE {"mock"})
  /\ geminiKey \in (IF uses \cap {"verifyImage", "extractLocation"} # {}
                       THEN BOOLEAN ELSE {FALSE})

Init ==
  /\ InitStore
  /\ underTest \in Services
  /\ observer = "off"
  /\ InitProviders({underTest})
  /\ InitCommon

\* The continuations of a service call.
Step(r) == GetSelect(r) \/ GetDelete(r) \/ SetUpsert(r) \/ Attempt(r)

\* The services and the adapter, called concurrently.
Next ==
  \/ \E r \in Reqs :
       StartService(r) \/ StartClear(r) \/ Step(r) \/ Clear(r) \/ Reset(r)
  \/ Tick

Spec == Init /\ [][Next]_vars

\* Two calls of the same service with the same arguments, one after the other,
\* against a configured and reachable store.
InitTwice ==
  /\ supabase = TRUE /\ storeFails = "never"
  /\ underTest \in {"fetchReports", "fetchUpdates"}
  /\ observer = "calls"
  /\ InitProviders({underTest})
  /\ InitCommon

\* The second call repeats the first one's arguments once the first returned.
SecondCall ==
  /\ req[1].pc = "done"
  /\ StartService(2)
  /\ req'[2].kw = req[1].kw

NextTwice ==
  \/ StartService(1)
  \/ SecondCall
  \/ \E r \in Reqs : Step(r)
  \/ Tick

SpecTwice == InitTwice /\ [][NextTwice]_vars

\* Concurrent calls of a caching service, with the observer of the upserts.
InitRace ==
  /\ supabase = TRUE /\ storeFails \in {"never", "sometimes"}
  /\ underTest \in {"geocode", "verifyImage"}
  /\ observer = "sets"
  /\ InitProviders({underTest})
  /\ InitCommon

NextRace ==
  \/ \E r \in Reqs : StartService(r) \/ Step(r) \/ Reset(r)
  \/ Tick

SpecRace == InitRace /\ [][NextRace]_vars

\* The adapter alone: getCachedData, setCachedData and clearExpiredCache called
\* one after the other against a configured and reachable store.
InitCache ==
  /\ supabase = TRUE /\ storeFails = "never"
  /\ underTest = "cache"
  /\ observer = "sets"
  /\ InitProviders({})
  /\ InitCommon

NoneInFlight == \A r \in Reqs : req[r].pc \in {"idle", "done"}

NextCache ==
  \/ \E r \in Reqs :
       \/ NoneInFlight /\ StartGet(r)
       \/ NoneInFlight /\ StartSet(r)
       \/ NoneInFlight /\ StartClear(r)
       \/ GetSelect(r) \/ GetDelete(r) \/ SetUpsert(r) \/ Clear(r)
       \/ Reset(r)
  \/ Tick

SpecCache == InitCache /\ [][NextCache]_vars

\* The two route handlers, serving one request after the other.
InitRoute ==
  /\ InitStore
  /\ underTest \in Routes
  /\ observer = "off"
  /\ InitProviders({RouteService(underTest)})
  /\ InitCommon

NextRoute ==
  \/ StartRoute(1) \/ RtDisaster(1) \/ RtRecent(1) \/ RtPersist(1) \/ RtUpsert(1)
  \/ Step(1) \/ Reset(1)
  \/ Tick

SpecRoute == InitRoute /\ [][NextRoute]_vars

\* No usable store: none configured, or every call to it fails. The services
\* and the adapter are called concurrently. (A finished call leaves nothing
\* behind here, so two calls in flight stand for any number of calls.)
InitNoStore ==
  /\ supabase \in BOOLEAN
  /\ storeFails = (IF supabase THEN "always" ELSE "never")
  /\ underTest \in Services
  /\ observer = "off"
  /\ InitProviders({underTest})
  /\ InitCommon

\* Nothing is ever stored: no entry to delete, no timestamp to compare the
\* clock with.
NextNoStore ==
  \E r \in Reqs :
    \/ StartService(r) \/ StartGet(r) \/ StartSet(r) \/ StartClear(r)
    \/ GetSelect(r) \/ SetUpsert(r) \/ Clear(r) \/ Attempt(r)

SpecNoStore == InitNoStore /\ [][NextNoStore]_vars

InitRetry ==
  /\ supabase = TRUE /\ storeFails = "never"
  /\ underTest = "retryWithBackoff"
  /\ observer = "off"
  /\ InitProviders({})
  /\ InitCommon

NextRetry == RtStart \/ RtLoop \/ RtCallOk \/ RtCallFail \/ RtDelay

\* The event loop runs every ready continuation: weak fairness of each step.
SpecRetry == InitRetry /\ [][NextRetry]_vars /\ WF_vars(RtStep)

\* The disasters, resources and image routers, serving concurrent requests.
InitDisasters ==
  /\ InitStore
  /\ underTest = "disasters"
  /\ observer = "off"
  /\ InitProviders({})
  /\ InitCommon

NextDisasters ==
  \E r \in Reqs :
    \/ HStart(r) \/ HValidate(r) \/ HList(r) \/ HGet(r) \/ HInsert(r)
    \/ HSelect(r) \/ HUpdate(r) \/ HDelete(r) \/ HReset(r)

SpecDisasters == InitDisasters /\ [][NextDisasters]_vars

\* The four routes that emit, served one request at a time while sockets
\* connect, join and leave rooms and disconnect.
InitRooms ==
  /\ supabase = TRUE
  /\ storeFails = "never"
  /\ underTest = "socialRoute"
  /\ observer = "off"
  /\ InitProviders({})
  /\ InitCommon

RoomsHStart == req[1].pc = "idle" /\ HStart(1)

RoomsStartRoute == hreq[1].pc = "idle" /\ StartRoute(1)

NextRooms ==
  \/ \E c \in Clients :
       \/ Connect(c) \/ Disconnect(c)
       \/ \E d \in DIds : JoinDisaster(c, d) \/ LeaveDisaster(c, d)
  \/ RoomsHStart \/ HValidate(1) \/ HList(1) \/ HGet(1) \/ HInsert(1)
  \/ HSelect(1) \/ HUpdate(1) \/ HDelete(1) \/ HQuery(1) \/ HFallback(1)
  \/ HReport(1) \/ HVerify(1) \/ HReset(1)
  \/ RoomsStartRoute \/ RtDisaster(1) \/ RtRecent(1) \/ RtPersist(1) \/ RtUpsert(1)
  \/ GetSelect(1) \/ SetUpsert(1) \/ Attempt(1) \/ Reset(1)

SpecRooms == InitRooms /\ [][NextRooms]_vars

\* Requests to the validating routers, and calls of reverseGeocode.
InitValidate ==
  /\ supabase = TRUE
  /\ storeFails = "sometimes"
  /\ underTest = "reverseGeocode"
  /\ observer = "off"
  /\ InitProviders({underTest})
  /\ InitCommon

ValidateHStart == req[1].pc = "idle" /\ HStart(1)

ValidateStartService == hreq[1].pc \in {"idle", "done"} /\ StartService(1)

NextValidate ==
  \/ ValidateHStart \/ HValidate(1) \/ HList(1) \/ HGet(1) \/ HInsert(1)
  \/ HSelect(1) \/ HUpdate(1) \/ HDelete(1) \/ HQuery(1) \/ HFallback(1)
  \/ HReport(1) \/ HVerify(1) \/ HReset(1)
  \/ ValidateStartService \/ GetSelect(1) \/ SetUpsert(1) \/ Attempt(1) \/ Reset(1)

SpecValidate == InitValidate /\ [][NextValidate]_vars

\* The evaluations of pure helpers run with no store and no credentials.
InitCalc ==
  /\ supabase = FALSE
  /\ storeFails = "never"
  /\ underTest = "geocode"
  /\ observer = "off"
  /\ InitProviders({})
  /\ InitState

\* geocode(name), then reverseGeocode of its coordinates, in mock mode.
InitRoundTrip ==
  /\ InitCalc
  /\ calc \in {[CalcIdle EXCEPT !.pc = "name", !.name = n] : n \in LocationNames}

NextRoundTrip == CalcGeocode \/ CalcReverse

SpecRoundTrip == InitRoundTrip /\ [][NextRoundTrip]_vars

\* _calculatePriorityScore(content) of every content.
InitScore ==
  /\ InitCalc
  /\ calc \in {[CalcIdle EXCEPT !.pc = "content", !.content = c] : c \in Contents}

NextScore == CalcScore

SpecScore == InitScore /\ [][NextScore]_vars

\* _categorizeReport(content) of every content, any number of times.
InitCategory ==
  /\ InitCalc
  /\ calc \in {[CalcIdle EXCEPT !.pc = "text", !.content = c] : c \in CategoryContents}

NextCategory == CalcCategorize

SpecCategory == InitCategory /\ [][NextCategory]_vars

\* verifyImage(imageUrl) and the status both handlers derive from its result.
InitVerify ==
  /\ supabase = FALSE
  /\ storeFails = "never"
  /\ underTest = "verifyImage"
  /\ observer = "off"
  /\ InitProviders({underTest})
  /\ InitState
  /\ calc \in {[CalcIdle EXCEPT !.pc = "image", !.url = u] : u \in ImageUrls}

NextVerify == CalcVerify \/ CalcSingleStatus \/ CalcBatchStatus

SpecVerify == InitVerify /\ [][NextVerify]_vars

\* Every request method on every path, dispatched by the application.
InitMount ==
  /\ InitCalc
  /\ calc \in {[CalcIdle EXCEPT !.pc = "request", !.method = m, !.path = p] :
                m \in RequestMethods, p \in RequestPaths}

NextMount == CalcRoute

SpecMount == InitMount /\ [][NextMount]_vars

\* Every place that answers with an error, with every errors argument.
InitEnvelope ==
  /\ InitCalc
  /\ calc \in {[CalcIdle EXCEPT !.pc = "failing", !.site = e, !.errors = a] :
                e \in ErrorSites, a \in ErrorArgs}

NextEnvelope == CalcRespond

SpecEnvelope == InitEnvelope /\ [][NextEnvelope]_vars

\* Two calls of a cached service, one after the other, on every two inputs.
InitKeys ==
  /\ InitCalc
  /\ calc \in {[CalcIdle EXCEPT !.pc = "cold", !.service = svc,
                                !.first = a, !.second = b] :
                svc \in {"geocode"}, a \in KeyNames, b \in KeyNames}
          \cup {[CalcIdle EXCEPT !.pc = "cold", !.service = svc,
                                !.first = a, !.second = b] :
                svc \in {"verifyImage"}, a \in KeyUrls, b \in KeyUrls}
          \cup {[CalcIdle EXCEPT !.pc = "cold", !.service = svc,
                                !.first = a, !.second = b] :
                svc \in {"extractLocation"}, a \in KeyDescriptions,
                b \in KeyDescriptions}

NextKeys == CalcFirstCall \/ CalcSecondCall

SpecKeys == InitKeys /\ [][NextKeys]_vars

\* The adapter called concurrently: a getCachedData and a setCachedData may
\* be in flight together, their store calls interleaving.
NextLazy ==
  \/ \E r \in Reqs :
       \/ StartGet(r) \/ StartSet(r)
       \/ GetSelect(r) \/ GetDelete(r) \/ SetUpsert(r)
       \/ Reset(r)
  \/ Tick

SpecLazy == InitCache /\ [][NextLazy]_vars

\* POST / with every body.
InitLocation ==
  /\ InitCalc
  /\ calc \in {[CalcIdle EXCEPT !.pc = "posting",
                                !.body = [lat |-> a, lng |-> g, typ |-> t]] :
                a \in BodyLats, g \in BodyLngs, t \in BodyTypes}

NextLocation == CalcCreate

SpecLocation == InitLocation /\ [][NextLocation]_vars

\* ----------------------------------------------------------- claims
AllFailed(q) == q.bad = (IF q.entry = "fetchUpdates" THEN 1..NumSources ELSE {0})

\* C1: whatever the external sources and the cache store do, a call of
\* geocode, reverseGeocode (valid coordinates), fetchReports, fetchUpdates,
\* verifyImage or extractLocation returns a result, the mock one when every
\* source failed, and never throws.
C1_AlwaysReturns ==
  \A r \in Reqs :
    LET q == req[r] IN
    (q.pc = "done" /\ q.entry \in Services /\ q.valid) =>
       /\ q.out = "returned"
       /\ q.res # Null
       /\ AllFailed(q) => q.res.source = "mock"

C1_Witness ==
  \E r \in Reqs :
    /\ req[r].pc = "done" /\ req[r].entry = "geocode" /\ req[r].called
    /\ AllFailed(req[r]) /\ req[r].out = "returned" /\ req[r].res.source = "mock"
    /\ storeFails = "always"

\* C2: a request whose cache check hit goes straight to DONE: no external
\* source is called, no record is upserted into the durable store and the
\* cache is not written again.
C2_HitGoesToDone ==
  \A r \in Reqs :
    LET q == req[r] IN
    (q.entry \in Routes /\ q.mainHit) =>
       q.pc = "done" /\ ~q.persisted /\ ~q.called /\ ~q.wrote

Has(steps, label) == \E i \in 1..Len(steps) : steps[i] = label

GetReturns(r) ==
  req[r].entry = "getCachedData" /\ req[r].pc # "done" /\ req'[r].pc = "done"

\* C4: a getCachedData issued strictly after the expires_at of the latest
\* setCachedData of its key returns null and leaves no entry for the key; one
\* issued before that expires_at returns the value of the latest set.
C4_GetRespectsExpiry ==
  [][\A r \in Reqs :
       LET e == lastSet[req[r].key] IN
       (GetReturns(r) /\ e.present) =>
          /\ now > e.expires_at =>
               req'[r].res = Null /\ ~cache'[req[r].key].present
          /\ now < e.expires_at => req'[r].res = e.value]_vars

C4_Witness ==
  \E r \in Reqs :
    LET e == lastSet[req[r].key] IN
    /\ req[r].entry = "getCachedData" /\ req[r].pc = "done"
    /\ e.present /\ now > e.expires_at /\ e.expires_at > 0
    /\ req[r].res = Null /\ ~cache[req[r].key].present

\* C5: with a configured store, a second fetchUpdates for the same disaster
\* and keywords within the hour after the first returns the identical cached
\* result and makes no external call.
C5_SecondCallCached ==
  (underTest = "fetchUpdates" /\ req[1].pc = "done" /\ req[2].pc = "done"
     /\ now < firstAt + TicksPerHour) =>
     req[2].res = req[1].res /\ req[2].hit /\ ~req[2].called

\* C6: when some official sources fail and others succeed, the result of
\* fetchUpdates contains the updates of every source that succeeded.
C6_PartialResults ==
  \A r \in Reqs :
    LET q == req[r] IN
    (q.pc = "done" /\ q.entry = "fetchUpdates" /\ q.bad # {} /\ q.got # {}) =>
       q.got \subseteq q.res.from

BothMissedAndWrote ==
  /\ \A r \in Reqs : req[r].pc = "done" /\ ~req[r].hit /\ req[r].wrote
  /\ req[1].key = req[2].key

\* C7: two concurrent misses on the same key may both fetch and both write;
\* neither fails, and once both completed the cache holds one entry for the
\* key, that of the cache write executed last.
C7_LastWriteWins ==
  /\ \A r \in Reqs : req[r].pc = "done" => req[r].out = "returned"
  /\ BothMissedAndWrote =>
       /\ cache[req[1].key].present
       /\ cache[req[1].key] = lastSet[req[1].key]

C7_Witness ==
  /\ BothMissedAndWrote /\ underTest = "geocode" /\ storeFails = "never"
  /\ req[1].called /\ req[2].called /\ req[1].res # req[2].res
  /\ cache[req[1].key].value = req[1].res

\* C8: without a configured or reachable store every getCachedData returns a
\* miss, every setCachedData and clearExpiredCache changes nothing and raises
\* nothing, and every service call returns a result of its own, as an
\* uncached miss would.
C8_NoStoreDegrades ==
  /\ \A k \in Keys : cache[k] = NoEntry
  /\ \A r \in Reqs :
       LET q == req[r] IN
       (q.pc = "done" /\ q.valid) =>
          /\ q.out = "returned"
          /\ ~q.hit /\ ~q.wrote
          /\ q.entry = "getCachedData" => q.res = Null
          /\ q.entry \in Services => q.res # Null /\ q.res.by = r

C8_Witness ==
  /\ ~supabase
  /\ req[1].pc = "done" /\ req[1].entry = "clearExpiredCache"
  /\ req[1].out = "returned"
  /\ req[2].pc = "done" /\ req[2].entry = "fetchReports" /\ req[2].res.by = 2

\* C9: fetchReports writes its cache entry with a TTL of about 10 minutes, so
\* a second fetchReports for the same disaster and keywords within 10 minutes
\* is a cache hit.
C9_SocialTtlTenMinutes ==
  underTest = "fetchReports" =>
    LET e == lastSet[CacheKey("fetchReports", req[1].arg)] IN
    /\ (req[1].pc = "done" /\ req[1].wrote /\ req[2].pc = "idle") =>
          e.expires_at = firstAt + TenMinutes
    /\ (req[1].pc = "done" /\ req[1].wrote /\ req[2].pc = "done"
          /\ now <= firstAt + TenMinutes) => req[2].hit

RetryShape ==
  /\ rt.calls <= rt.maxRetries
  /\ rt.outcome = "returned" =>
       /\ Len(rt.errs) = rt.calls - 1
       /\ Len(rt.waits) = rt.calls - 1
  /\ rt.outcome = "threw" =>
       /\ rt.calls = rt.maxRetries
       /\ Len(rt.errs) = rt.maxRetries
       /\ Len(rt.waits) = IF rt.maxRetries = 0 THEN 0 ELSE rt.maxRetries - 1
       /\ rt.maxRetries > 0 => rt.thrown = rt.errs[rt.maxRetries]
  /\ \A a \in 1..Len(rt.waits) :
       rt.waits[a] = rt.baseDelay * (2 ^ (a - 1))

\* C10: retryWithBackoff invokes the operation at most maxRetries times, stops
\* at the first success, waits baseDelay * 2^attempt after each failed attempt
\* but the last, rethrows the last attempt's error after maxRetries failures,
\* and always terminates.
C10_RetryBounded ==
  /\ [] RetryShape
  /\ (rt.pc = "loop") ~> (rt.pc = "done")

C10_Witness ==
  /\ rt.pc = "done" /\ rt.outcome = "threw" /\ rt.maxRetries = 3
  /\ rt.waits = <<rt.baseDelay, 2 * rt.baseDelay>>
  /\ rt.errs[1] # rt.errs[3]

\* trail is old plus one entry at the end.
AppendsOne(old, trail) ==
  Len(trail) = Len(old) + 1 /\ SubSeq(trail, 1, Len(old)) = old

\* C11: the audit trail of a disaster is append-only and every successful
\* mutation appends exactly one entry: whenever the stored disaster changes,
\* its trail is the trail before plus one entry at the end, and a created
\* disaster starts with a trail of one entry.
C11_AuditTrailAppendOnly ==
  [][\A d \in DIds :
       LET old == disasters[d]
           new == disasters'[d]
       IN  /\ (old.present /\ new.present /\ new # old) =>
                AppendsOne(old.audit_trail, new.audit_trail)
           /\ (~old.present /\ new.present) => Len(new.audit_trail) = 1]_vars

\* The user may change or delete the row: its owner, or an admin.
MayMutate(user, row) == row.owner_id = user.id \/ IsAdmin(user)

\* C12: a PUT or DELETE changes the stored disaster only if the requesting
\* user is its owner or an admin; a request of any other user leaves the
\* disaster unchanged, emits no disaster_updated and, once its select found
\* the disaster, is answered 403.
C12_OwnerOrAdminOnly ==
  [][\A r \in Reqs :
       LET q == hreq[r]
           q2 == hreq'[r]
           row == disasters[q.id]
       IN  (q.method \in {"update", "delete"} /\ q2 # q /\ q.pc # "done"
              /\ row.present /\ ~MayMutate(User(q), row)) =>
             /\ disasters' = disasters
             /\ q2.emits = <<>>
             /\ (q.pc = "h_select" /\ q2.existing.present) =>
                  q2.pc = "done" /\ q2.status = 403]_vars

C12_Witness ==
  \E r \in Reqs :
    LET q == hreq[r] IN
    /\ q.pc = "done" /\ q.method = "update" /\ q.hdr = "responder1"
    /\ q.status = 403 /\ q.touched /\ q.emits = <<>>
    /\ disasters[q.id].present /\ disasters[q.id].owner_id = "citizen1"
    /\ q.existing.owner_id = "citizen1"

\* The request was turned away before its handler: nothing was touched.
TurnedAway(q, code) ==
  q.pc = "done" /\ q.status = code /\ ~q.touched /\ q.emits = <<>>

\* C13: a request without a user id header, or whose user id is not in the
\* user table, is answered 401, and a request of a known user who lacks the
\* permission the route requires is answered 403; in both cases the handler
\* never runs: no store call, no broadcast.
C13_RejectedBeforeHandler ==
  \A r \in Reqs :
    LET q == hreq[r] IN
    /\ (q.method # "none" /\ q.hdr \notin Users) => TurnedAway(q, 401)
    /\ (q.hdr \in Users /\ Required(q.method) # "none"
          /\ Required(q.method) \notin Permissions(q.hdr)) => TurnedAway(q, 403)

\* C14: a successful creation by user u stores a record with owner_id = u and
\* an audit trail of exactly one entry {action: "create", userId: u}, and the
\* request emits exactly one disaster_updated with action "create"; when the
\* insert fails no record is stored and nothing is emitted.
C14_CreateOwnedAuditedBroadcast ==
  [][\A r \in Reqs :
       LET q == hreq[r]
           q2 == hreq'[r]
       IN  (q.pc = "h_insert" /\ q2.pc = "done") =>
             /\ q.hdr \in Users
             /\ IF q2.status = 201
                  THEN /\ ~disasters[q2.id].present
                       /\ disasters'[q2.id] =
                            [present |-> TRUE, owner_id |-> q.hdr,
                             audit_trail |->
                               <<[action |-> "create", userId |-> q.hdr]>>]
                       /\ Len(q2.emits) = 1
                       /\ q2.emits[1].event = "disaster_updated"
                       /\ q2.emits[1].action = "create"
                       /\ q2.emits[1].d = q2.id
                  ELSE disasters' = disasters /\ q2.emits = <<>>]_vars

C14_Witness ==
  \E r \in Reqs :
    LET q == hreq[r] IN
    /\ q.pc = "done" /\ q.method = "create" /\ q.status = 201
    /\ q.hdr = "netrunnerX" /\ Len(q.emits) = 1
    /\ disasters[q.id].present /\ disasters[q.id].owner_id = "netrunnerX"
    /\ Len(disasters[q.id].audit_trail) = 1
\* Every event a request emitted, with the sockets it reached.
Deliveries ==
  UNION {{hreq[r].emits[i] : i \in DOMAIN hreq[r].emits} : r \in Reqs}
    \cup {req[r].emit : r \in {x \in Reqs : req[x].emit.event # "none"}}

RoomEvents == {"social_media_updated", "resources_updated", "image_verified"}

C16_InvalidInputTouchesNothing ==
  /\ \A r \in Reqs :
       LET q == hreq[r] IN
       q.invalid => /\ q.pc = "done" /\ q.status = 400
                    /\ ~q.touched /\ q.emits = <<>>
  /\ \A r \in Reqs :
       LET q == req[r] IN
       (q.entry = "reverseGeocode"
          /\ (q.lat < -90 \/ q.lat > 90 \/ q.lng < -180 \/ q.lng > 180)) =>
         /\ q.pc = "done" /\ q.out = "threw"
         /\ ~q.called /\ ~q.hit /\ ~q.wrote /\ q.steps = <<>>

\* Both cases happened: a route answered 400 to an out-of-range coordinate
\* while the table holds a disaster, and reverseGeocode threw on lat = 91
\* while the cache holds an entry.
C16_Witness ==
  /\ hreq[1].invalid /\ hreq[1].status = 400
  /\ hreq[1].method \in {"create", "update", "resources"}
  /\ \E d \in DIds : disasters[d].present
  /\ req[1].entry = "reverseGeocode" /\ req[1].lat = 91 /\ req[1].out = "threw"
  /\ cache # [k \in Keys |-> NoEntry]

\* The providers a geocode call can use with the configured credentials
\* (Nominatim needs none), and those it called.
Configured(keys) ==
  (IF keys.google THEN {"google"} ELSE {})
    \cup (IF keys.mapbox THEN {"mapbox"} ELSE {}) \cup {"nominatim"}
Tried(q) == IF q.called THEN {geoService} ELSE {}

GeocodeMiss(q) ==
  q.pc = "done" /\ q.entry = "geocode" /\ q.out = "returned" /\ ~q.hit

\* C17 (as stated): geocode tries the providers in priority order and returns
\* the result of the first one that returns one; so it gives up (returns a
\* result of no provider) only after every usable provider was tried.
C17_FirstProviderWins ==
  \A r \in Reqs :
    LET q == req[r] IN
    (GeocodeMiss(q) /\ q.res.source \notin GeoServices) =>
      Configured(geoKeys) \subseteq Tried(q)

\* C17 (amended): geocode calls one provider only, the one chosen at
\* construction by priority of the configured credentials (Google Maps key,
\* else Mapbox token, else Nominatim); it returns that provider's result, or
\* the mock result when that provider fails or finds nothing. No other
\* provider is tried and no results are merged.
C17_SelectedProviderOnly ==
  \A r \in Reqs :
    LET q == req[r] IN
    GeocodeMiss(q) =>
      /\ q.res.source \in GeoServices \cup {"mock"}
      /\ q.res.source = "google" => geoKeys.google
      /\ q.res.source = "mapbox" => ~geoKeys.google /\ geoKeys.mapbox
      /\ q.res.source = "nominatim" => ~geoKeys.google /\ ~geoKeys.mapbox
      /\ q.bad # {} => q.res.source = "mock"
      /\ q.res.from = {}

\* With both credentials configured Google failed and the mock result came
\* back; Mapbox and Nominatim were not asked.
C17_Witness ==
  \E r \in Reqs :
    /\ GeocodeMiss(req[r]) /\ req[r].called /\ req[r].bad # {}
    /\ geoKeys.google /\ geoKeys.mapbox /\ req[r].res.source = "mock"

\* C18: in mock mode, for a name of the mock lookup table such as
\* "Manhattan, NYC", geocode(name) then reverseGeocode of the returned
\* coordinates yields a formatted address that contains the place name.
C18_RoundTripKeepsPlace ==
  (calc.pc = "reversed"
     /\ \E m \in MockLocations : m.key = ToLowerCase(calc.name)) =>
    Includes(calc.address, PlaceName(calc.name))

\* C19: every post of every result fetchReports returns - from the live
\* source, from the mock service, from the cache or from the fallback - has
\* been through _processReports (priority score, sentiment, category).
C19_EveryPostProcessed ==
  \A r \in Reqs :
    LET q == req[r] IN
    (q.pc = "done" /\ q.entry = "fetchReports" /\ q.out = "returned"
       /\ q.res.n > 0) => q.res.proc

\* The keywords of a list that occur in the text, in any letter case.
Present(keywords, content) ==
  {i \in DOMAIN keywords : Includes(ToLowerCase(content), keywords[i])}

\* C20: the priority of a content is min(10, 1 + 3u + 2m + l), where u, m and
\* l count the urgent, moderate and low keywords present in it; it lies in
\* 1..10 and is at least min(10, 1 + 3) when an urgent keyword is present.
C20_PriorityFormula ==
  calc.pc = "scored" =>
    LET u == Cardinality(Present(UrgentKeywords, calc.content))
        m == Cardinality(Present(ModerateKeywords, calc.content))
        l == Cardinality(Present(LowKeywords, calc.content))
    IN  /\ calc.score = Min(10, 1 + 3 * u + 2 * m + l)
        /\ calc.score \in 1..10
        /\ u > 0 => calc.score >= Min(10, 1 + 3)

\* A content with four urgent keywords, whose sum 13 is capped at 10.
C20_Witness ==
  /\ calc.pc = "scored" /\ calc.score = 10
  /\ Cardinality(Present(UrgentKeywords, calc.content)) = 4

\* The categories whose keywords the text holds, by position in the order
\* medical, shelter, food_water, rescue, information, volunteer, infrastructure.
Matching(content) ==
  {i \in DOMAIN Categories :
     \E k \in DOMAIN Categories[i].keywords :
       Includes(ToLowerCase(content), Categories[i].keywords[k])}

\* C21: the category of a text is the first group of that order with a
\* keyword in the text, general when there is none, and invoking the
\* classification again on the same text returns the same category.
C21_FirstMatchStable ==
  [][calc'.pc = "categorized" =>
       LET matching == Matching(calc'.content) IN
       /\ IF matching = {}
            THEN calc'.category = "general"
            ELSE \E i \in matching :
                   /\ \A j \in matching : i <= j
                   /\ calc'.category = Categories[i].category
       /\ calc.pc = "categorized" => calc'.category = calc.category]_vars

\* A text with keywords of three groups was put into the first of them.
C21_Witness ==
  /\ calc.pc = "categorized"
  /\ Cardinality(Matching(calc.content)) >= 3
  /\ calc.category = "shelter"

\* verified, rejected or pending as the claim defines them.
StatusOf(authentic, confidence) ==
  CASE authentic /\ AtLeast(confidence, 80) -> "verified"
    [] ~authentic \/ Below(confidence, 50) -> "rejected"
    [] OTHER -> "pending"

\* C22: the status is verified exactly when the result is authentic with
\* confidence >= 80, rejected exactly when it is not authentic or its
\* confidence is < 50, pending otherwise; the two conditions never hold
\* together, and both handlers derive the same status from the same result.
C22_StatusPartition ==
  LET a == calc.result.isAuthentic
      c == calc.result.confidence
  IN  /\ ~((a /\ AtLeast(c, 80)) /\ (~a \/ Below(c, 50)))
      /\ calc.single # "none" => calc.single = StatusOf(a, c)
      /\ calc.batch # "none" => calc.batch = StatusOf(a, c)
      /\ (calc.single # "none" /\ calc.batch # "none") => calc.single = calc.batch

\* Both handlers found an authentic result of confidence 79 pending.
C22_Witness ==
  /\ calc.result.isAuthentic /\ calc.result.confidence = 79
  /\ calc.single = "pending" /\ calc.batch = "pending"

\* C23: every result of verifyImage has a confidence within 0..100, whatever
\* the AI response holds, and every priority score lies within 1..10.
C23_ScoresClamped ==
  /\ calc.pc = "verified" => calc.result.confidence \in 0..100
  /\ calc.pc = "scored" => calc.score \in 1..10

\* The documented per-disaster endpoints and the handler each names.
Documented ==
  {[method |-> "GET", last |-> "social-media", router |-> "socialMedia"],
   [method |-> "GET", last |-> "resources", router |-> "resources"],
   [method |-> "GET", last |-> "official-updates", router |-> "officialUpdates"],
   [method |-> "POST", last |-> "verify-image", router |-> "imageVerification"]}

\* C24: GET /api/disasters/:id/social-media, GET /api/disasters/:id/resources,
\* GET /api/disasters/:id/official-updates and POST /api/disasters/:id/verify-image
\* reach the social-media, resources, official-updates and image-verification
\* handler, not the 404 handler.
C24_DocumentedPathsServed ==
  \A e \in Documented :
    (calc.pc = "routed" /\ calc.method = e.method
       /\ calc.path = <<"api", "disasters", "d1", e.last>>) =>
      calc.handler = [router |-> e.router, pattern |-> <<":id", e.last>>]

\* The fields of the uniform error envelope.
Envelope == {"success", "message", "errors", "statusCode", "timestamp"}

\* C25: every error response (validation, authentication, authorization, not
\* found, rate limit, handler exception, unknown route) carries success =
\* false, message, errors, timestamp and a statusCode equal to its HTTP status.
C25_UniformEnvelope ==
  calc.pc = "responded" =>
    /\ Envelope \subseteq calc.response.fields
    /\ calc.response.success = FALSE
    /\ calc.response.statusCode = calc.response.status

\* Two inputs of a service are the same input: location names are compared
\* without regard to case.
SameInput(service, a, b) ==
  IF service = "geocode" THEN LowerBytes(a) = LowerBytes(b) ELSE a = b

\* C26: a call answered from the cache returns a result computed for the
\* same input: different location names, image URLs or descriptions never
\* share a cache entry.
C26_HitIsOwnResult ==
  calc.pc = "answered" =>
    SameInput(calc.service, calc.answerFor, calc.second)

\* The request in slot r is an update that was answered 200.
Updated(r) ==
  hreq[r].pc = "done" /\ hreq[r].method = "update" /\ hreq[r].status = 200

\* The number of update entries of the user in the trail.
UpdatesBy(userId, trail) ==
  Cardinality({i \in DOMAIN trail : trail[i] = CreateAuditEntry("update", userId)})

\* C27: when two update requests on the same disaster both succeeded, however
\* their read-existing and write-back steps interleaved, the audit trail of
\* the disaster holds an entry for each of them.
C27_ConcurrentUpdatesKeepEntries ==
  \A r1, r2 \in Reqs :
    (/\ r1 # r2 /\ Updated(r1) /\ Updated(r2)
     /\ hreq[r1].id = hreq[r2].id
     /\ disasters[hreq[r1].id].present) =>
      \A r \in {r1, r2} :
        UpdatesBy(User(hreq[r]).id, disasters[hreq[r].id].audit_trail)
          >= Cardinality({s \in {r1, r2} : User(hreq[s]).id = User(hreq[r]).id})

\* A getCachedData and a setCachedData on the key have both completed.
GetAndSetDone(k) ==
  \E r1, r2 \in Reqs :
    /\ req[r1].pc = "done" /\ req[r1].entry = "getCachedData" /\ req[r1].key = k
    /\ req[r2].pc = "done" /\ req[r2].entry = "setCachedData" /\ req[r2].key = k
    /\ req[r2].wrote

\* C28: the lazy deletion of getCachedData removes only expired entries: once
\* a getCachedData and a setCachedData on the same key have completed, in
\* whatever order their store calls ran, the entry written last, if it has not
\* expired, is in the cache.
C28_FreshEntrySurvives ==
  \A k \in Keys :
    (GetAndSetDone(k) /\ lastSet[k].present /\ ~IsExpired(lastSet[k], now)) =>
      cache[k] = lastSet[k]

\* The request in slot r creates disaster d in this step.
Creates(r, d) ==
  /\ hreq[r].pc = "h_insert" /\ hreq'[r].pc = "done"
  /\ hreq'[r].status = 201 /\ hreq'[r].id = d

C30_LocationStored ==
  (calc.pc = "posted" /\ calc.stored.status = 201) =>
    LET in == calc.body IN
    IF in.lat # Absent /\ in.lng # Absent
      THEN calc.stored.location = [kind |-> "point", lat |-> in.lat, lng |-> in.lng]
      ELSE calc.stored.location = NoPoint

====
